---- MODULE Spec2Model ----
(***************************************************************************)
(* A model of the 3MF settings analyzer (src/analyze.py): the analyze()    *)
(* pipeline of ThreeMFAnalyzer (extraction with path validation, the two   *)
(* document parsers, the row builder, the scratch directory's cleanup).    *)
(*                                                                         *)
(* Strings are sequences of one-character strings, so that str(),          *)
(* concatenation, replace() and int() are computed and never assumed.      *)
(* A Python value is a record [t, s]: t its type ("null", "str", "num",    *)
(* "list"), s its characters (for a number: what str() prints) or, for a   *)
(* list, its items.                                                        *)
(***************************************************************************)
EXTENDS Integers, Sequences, FiniteSets, TLC

VARIABLES
    file,              \* the input file of the analyzer (self.filepath's content)
    pc,                \* position inside analyze()
    temp_dir,          \* self.temp_dir: None or the scratch directory's name
    fs_dirs,           \* the scratch directories that exist in the file system
    extracted,         \* the paths written below the scratch directory
    member_idx,        \* the member the validation loop of _extract is at
    project_settings,  \* self.project_settings
    objects,           \* self.objects: object id -> obj_data
    plates,            \* self.plates
    result,            \* what the last call returned (None until analyze() returns)
    exc,               \* the exception the last call raised ("none": no exception)
    calls,             \* the number of analyze() calls started on this instance
    call,              \* the last direct call of a resolver method: its name and arguments
    main_pc,           \* position inside main() ("none": the analyzer is used as a library)
    exit_status,       \* the exit status of the process main() ran in (None while it runs)
    _cache,            \* settings_wiki._cache: None or the cached dictionary
    _cache_lock,       \* settings_wiki._cache_lock: Unlocked or the thread that holds it
    threads,           \* each caller of _load_cache: its position and what it returned
    disk,              \* the wiki data directory: settings_wiki.json and the .cpp files
    heap               \* the number of dictionaries _load_cache has created

\* The variables of the analyzer and of main()
analyzer == <<file, pc, temp_dir, fs_dirs, extracted, member_idx, project_settings,
              objects, plates, result, exc, calls, call, main_pc, exit_status>>
\* The variables of settings_wiki
wiki == <<_cache, _cache_lock, threads, disk, heap>>

vars == <<file, pc, temp_dir, fs_dirs, extracted, member_idx, project_settings,
          objects, plates, result, exc, calls, call, main_pc, exit_status,
          _cache, _cache_lock, threads, disk, heap>>

----------------------------------------------------------------------------
(* Python values                                                           *)

None == [t |-> "null", s |-> <<>>]
StrV(chars) == [t |-> "str", s |-> chars]
NumV(chars) == [t |-> "num", s |-> chars]
ListV(items) == [t |-> "list", s |-> items]
EmptyStr == StrV(<<>>)

\* str(v) of a scalar
PyStr(v) ==
    IF v.t = "null" THEN <<"N", "o", "n", "e">> ELSE v.s

\* bool(v): None, "", 0, 0.0 and [] are falsy
Truthy(v) ==
    CASE v.t = "null" -> FALSE
      [] v.t = "str"  -> v.s # <<>>
      [] v.t = "num"  -> v.s \notin {<<"0">>, <<"0", ".", "0">>}
      [] v.t = "list" -> v.s # <<>>
      [] v.t = "dict" -> DOMAIN v.s # {}

\* a or b taken as null-coalescing: only None falls through
PyOr_NullCoalescing(a, b) == IF a # None THEN a ELSE b
\* a or b
PyOr(a, b) == IF Truthy(a) THEN a ELSE b

\* An insertion-ordered dict as a sequence of <<key, value>> pairs.
EmptyDict == <<>>
DictHas(d, k) == \E i \in 1..Len(d) : d[i][1] = k
DictIndex(d, k) == CHOOSE i \in 1..Len(d) : d[i][1] = k
DictGet(d, k, default) == IF DictHas(d, k) THEN d[DictIndex(d, k)][2] ELSE default
DictSet(d, k, v) ==
    IF DictHas(d, k)
    THEN [d EXCEPT ![DictIndex(d, k)] = <<k, v>>]
    ELSE Append(d, <<k, v>>)

----------------------------------------------------------------------------
(* Constants of src/analyze.py                                             *)

K_name == <<"n", "a", "m", "e">>
K_matrix == <<"m", "a", "t", "r", "i", "x">>
K_extruder == <<"e", "x", "t", "r", "u", "d", "e", "r">>
K_face_count == <<"f", "a", "c", "e", "_", "c", "o", "u", "n", "t">>
K_source_object_id == <<"s", "o", "u", "r", "c", "e", "_", "o", "b", "j", "e", "c", "t", "_", "i", "d">>
K_source_volume_id == <<"s", "o", "u", "r", "c", "e", "_", "v", "o", "l", "u", "m", "e", "_", "i", "d">>
K_source_offset_x == <<"s", "o", "u", "r", "c", "e", "_", "o", "f", "f", "s", "e", "t", "_", "x">>
K_source_offset_y == <<"s", "o", "u", "r", "c", "e", "_", "o", "f", "f", "s", "e", "t", "_", "y">>
K_source_offset_z == <<"s", "o", "u", "r", "c", "e", "_", "o", "f", "f", "s", "e", "t", "_", "z">>
K_layer_height == <<"l", "a", "y", "e", "r", "_", "h", "e", "i", "g", "h", "t">>
K_wall_loops == <<"w", "a", "l", "l", "_", "l", "o", "o", "p", "s">>
K_sparse_infill_density == <<"s", "p", "a", "r", "s", "e", "_", "i", "n", "f", "i", "l", "l", "_", "d", "e", "n", "s", "i", "t", "y">>
K_skeleton_infill_density == <<"s", "k", "e", "l", "e", "t", "o", "n", "_", "i", "n", "f", "i", "l", "l", "_", "d", "e", "n", "s", "i", "t", "y">>
K_enable_support == <<"e", "n", "a", "b", "l", "e", "_", "s", "u", "p", "p", "o", "r", "t">>
K_brim_type == <<"b", "r", "i", "m", "_", "t", "y", "p", "e">>
K_outer_wall_speed == <<"o", "u", "t", "e", "r", "_", "w", "a", "l", "l", "_", "s", "p", "e", "e", "d">>
K_inner_wall_speed == <<"i", "n", "n", "e", "r", "_", "w", "a", "l", "l", "_", "s", "p", "e", "e", "d">>
K_plater_id == <<"p", "l", "a", "t", "e", "r", "_", "i", "d">>
K_plater_name == <<"p", "l", "a", "t", "e", "r", "_", "n", "a", "m", "e">>
K_object_id == <<"o", "b", "j", "e", "c", "t", "_", "i", "d">>
K_identify_id == <<"i", "d", "e", "n", "t", "i", "f", "y", "_", "i", "d">>
K_different_settings_to_system == <<"d", "i", "f", "f", "e", "r", "e", "n", "t", "_", "s", "e", "t", "t", "i", "n", "g", "s", "_", "t", "o", "_", "s", "y", "s", "t", "e", "m">>
K_filament_settings_id == <<"f", "i", "l", "a", "m", "e", "n", "t", "_", "s", "e", "t", "t", "i", "n", "g", "s", "_", "i", "d">>
K_print_settings_id == <<"p", "r", "i", "n", "t", "_", "s", "e", "t", "t", "i", "n", "g", "s", "_", "i", "d">>
K_printer_settings_id == <<"p", "r", "i", "n", "t", "e", "r", "_", "s", "e", "t", "t", "i", "n", "g", "s", "_", "i", "d">>

\* SYSTEM_KEYS that reserves the name and the extruder only
SYSTEM_KEYS_NameAndExtruder == {K_name, K_extruder}

SYSTEM_KEYS ==
    {K_name, K_matrix, K_extruder, K_face_count, K_source_object_id,
     K_source_volume_id, K_source_offset_x, K_source_offset_y, K_source_offset_z}

BOOL_TRUE == StrV(<<"1">>)
INFILL_DENSITY_KEYS == <<K_sparse_infill_density, K_skeleton_infill_density>>
DEFAULT_EXTRUDER == StrV(<<"1">>)
DEFAULT_IDENTIFY_ID == 0

----------------------------------------------------------------------------
(* Strings                                                                 *)

DigitChars == <<"0", "1", "2", "3", "4", "5", "6", "7", "8", "9">>
IsDigit(c) == \E i \in 1..Len(DigitChars) : DigitChars[i] = c
DigitOf(c) == (CHOOSE i \in 1..Len(DigitChars) : DigitChars[i] = c) - 1
IsSpace(c) == c = " "

RECURSIVE LStrip(_)
LStrip(s) == IF s # <<>> /\ IsSpace(Head(s)) THEN LStrip(Tail(s)) ELSE s

RECURSIVE RStrip(_)
RStrip(s) ==
    IF s # <<>> /\ IsSpace(s[Len(s)]) THEN RStrip(SubSeq(s, 1, Len(s) - 1)) ELSE s

\* str.strip()
\* strip() that trims the left end only
Strip_LeftOnly(s) == LStrip(s)

Strip(s) == RStrip(LStrip(s))

RECURSIVE DigitsValue(_)
DigitsValue(s) ==
    IF s = <<>> THEN 0 ELSE 10 * DigitsValue(SubSeq(s, 1, Len(s) - 1)) + DigitOf(s[Len(s)])

AllDigits(s) == s # <<>> /\ \A i \in 1..Len(s) : IsDigit(s[i])

\* int(value): [ok |-> TRUE, n |-> the integer], or ok = FALSE where Python
\* raises TypeError (None) or ValueError (no integer literal).
PyInt(v) ==
    IF v.t # "str" THEN [ok |-> FALSE, n |-> 0]
    ELSE LET body == Strip(v.s)
             signed == body # <<>> /\ Head(body) \in {"-", "+"}
             digits == IF signed THEN Tail(body) ELSE body
         IN  IF AllDigits(digits)
             THEN [ok |-> TRUE,
                   n |-> IF signed /\ Head(body) = "-"
                         THEN 0 - DigitsValue(digits) ELSE DigitsValue(digits)]
             ELSE [ok |-> FALSE, n |-> 0]

----------------------------------------------------------------------------
(* _parse_model_settings: the hierarchy document.  The document is the     *)
(* element tree the XML parser returns: object nodes and plate nodes in    *)
(* document order, each metadata entry a [key, value] pair whose value is  *)
(* None when the attribute is missing.                                     *)

NewObjData ==
    [name |-> None, extruder |-> DEFAULT_EXTRUDER, layer_height |-> None,
     wall_loops |-> None, sparse_infill_density |-> None, enable_support |-> None,
     brim_type |-> None, outer_wall_speed |-> None, inner_wall_speed |-> None,
     custom_settings |-> EmptyDict, parts |-> <<>>]

IsInfillKey(key) == \E i \in 1..Len(INFILL_DENSITY_KEYS) : INFILL_DENSITY_KEYS[i] = key

\* One metadata entry of an object node.
ObjMetaStep(d, key, value) ==
    CASE key = K_name -> [d EXCEPT !.name = value]
      [] key = K_extruder -> [d EXCEPT !.extruder = value]
      [] key = K_layer_height ->
            [d EXCEPT !.layer_height = value,
                      !.custom_settings = DictSet(@, K_layer_height, value)]
      [] key = K_wall_loops ->
            [d EXCEPT !.wall_loops = value,
                      !.custom_settings = DictSet(@, K_wall_loops, value)]
      [] IsInfillKey(key) ->
            [d EXCEPT !.sparse_infill_density = IF @ = None THEN value ELSE @,
                      !.custom_settings = DictSet(@, key, value)]
      [] key = K_enable_support ->
            [d EXCEPT !.enable_support = value,
                      !.custom_settings = DictSet(@, K_enable_support, value)]
      [] key = K_brim_type ->
            [d EXCEPT !.brim_type = value,
                      !.custom_settings = DictSet(@, K_brim_type, value)]
      [] key = K_outer_wall_speed ->
            [d EXCEPT !.outer_wall_speed = value,
                      !.custom_settings = DictSet(@, K_outer_wall_speed, value)]
      [] key = K_inner_wall_speed ->
            [d EXCEPT !.inner_wall_speed = value,
                      !.custom_settings = DictSet(@, K_inner_wall_speed, value)]
      [] OTHER ->
            IF key \notin SYSTEM_KEYS /\ value # None
            THEN [d EXCEPT !.custom_settings = DictSet(@, key, value)]
            ELSE d

RECURSIVE ParseObjMeta(_, _)
ParseObjMeta(d, metas) ==
    IF metas = <<>> THEN d
    ELSE ParseObjMeta(ObjMetaStep(d, Head(metas).key, Head(metas).value), Tail(metas))

NewPartData == [name |-> None, extruder |-> None, custom_settings |-> EmptyDict]

\* One metadata entry of a part node.
PartMetaStep(d, key, value) ==
    CASE key = K_name -> [d EXCEPT !.name = value]
      [] key = K_extruder -> [d EXCEPT !.extruder = value]
      [] OTHER ->
            IF key \notin SYSTEM_KEYS /\ value # None
            THEN [d EXCEPT !.custom_settings = DictSet(@, key, value)]
            ELSE d

RECURSIVE ParsePartMeta(_, _)
ParsePartMeta(d, metas) ==
    IF metas = <<>> THEN d
    ELSE ParsePartMeta(PartMetaStep(d, Head(metas).key, Head(metas).value), Tail(metas))

\* The obj_data of one object node: its metadata, then its parts in document order.
ParseObject(node) ==
    [ParseObjMeta(NewObjData, node.metadata) EXCEPT
        !.parts = [i \in 1..Len(node.parts) |-> ParsePartMeta(NewPartData, node.parts[i])]]

\* self.objects[obj_id] = obj_data
ObjectsSet(objs, id, data) ==
    [k \in DOMAIN objs \cup {id} |-> IF k = id THEN data ELSE objs[k]]

RECURSIVE ParseObjects(_, _)
ParseObjects(objs, nodes) ==
    IF nodes = <<>> THEN objs
    ELSE ParseObjects(ObjectsSet(objs, Head(nodes).id, ParseObject(Head(nodes))),
                      Tail(nodes))

\* The value of the last metadata entry with this key (None if there is none).
RECURSIVE LastMeta(_, _, _)
LastMeta(metas, key, default) ==
    IF metas = <<>> THEN default
    ELSE LastMeta(Tail(metas), key,
                  IF Head(metas).key = key THEN Head(metas).value ELSE default)

\* IdentifyOf that orders an instance of unreadable identify_id last
IdentifyOf_Last(value) == IF PyInt(value).ok THEN PyInt(value).n ELSE 9

\* identify_id of one metadata entry: int(value), DEFAULT_IDENTIFY_ID when it raises.
IdentifyOf(value) ==
    IF PyInt(value).ok THEN PyInt(value).n ELSE DEFAULT_IDENTIFY_ID

RECURSIVE InstIdentify(_, _)
InstIdentify(metas, current) ==
    IF metas = <<>> THEN current
    ELSE InstIdentify(Tail(metas),
                      IF Head(metas).key = K_identify_id
                      THEN IdentifyOf(Head(metas).value) ELSE current)

\* The plate_objects of one plate node, before sorting.
RECURSIVE PlateObjects(_)
PlateObjects(insts) ==
    IF insts = <<>> THEN <<>>
    ELSE LET obj_id == LastMeta(Head(insts), K_object_id, None)
             entry == [object_id |-> obj_id, identify_id |-> InstIdentify(Head(insts), 0)]
         IN  (IF Truthy(obj_id) THEN <<entry>> ELSE <<>>) \o PlateObjects(Tail(insts))

\* list.sort(key=identify_id) is stable: an entry goes behind every entry whose
\* key is not greater.
\* SortInsert that puts an entry before the entries of equal key (not stable)
RECURSIVE SortInsert_Unstable(_, _)
SortInsert_Unstable(sorted, e) ==
    IF sorted = <<>> THEN <<e>>
    ELSE IF Head(sorted).identify_id < e.identify_id
         THEN <<Head(sorted)>> \o SortInsert_Unstable(Tail(sorted), e)
         ELSE <<e>> \o sorted

RECURSIVE SortInsert(_, _)
SortInsert(sorted, e) ==
    IF sorted = <<>> THEN <<e>>
    ELSE IF Head(sorted).identify_id <= e.identify_id
         THEN <<Head(sorted)>> \o SortInsert(Tail(sorted), e)
         ELSE <<e>> \o sorted

RECURSIVE SortByIdentify(_)
SortByIdentify(entries) ==
    IF entries = <<>> THEN <<>>
    ELSE SortInsert(SortByIdentify(SubSeq(entries, 1, Len(entries) - 1)),
                    entries[Len(entries)])

\* ParsePlate without the test of plate_id
ParsePlate_Unchecked(node) ==
    LET plate_objects == SortByIdentify(PlateObjects(node.instances))
    IN  << [id |-> LastMeta(node.metadata, K_plater_id, None),
            name |-> LastMeta(node.metadata, K_plater_name, None),
            objects |-> [i \in 1..Len(plate_objects) |-> plate_objects[i].object_id]] >>

\* What one plate node appends to self.plates (nothing without a plater_id).
ParsePlate(node) ==
    LET plate_id == LastMeta(node.metadata, K_plater_id, None)
        plate_name == LastMeta(node.metadata, K_plater_name, None)
        plate_objects == SortByIdentify(PlateObjects(node.instances))
    IN  IF Truthy(plate_id)
        THEN << [id |-> plate_id, name |-> plate_name,
                 objects |-> [i \in 1..Len(plate_objects) |-> plate_objects[i].object_id]] >>
        ELSE <<>>

RECURSIVE ParsePlates(_, _)
ParsePlates(pls, nodes) ==
    IF nodes = <<>> THEN pls
    ELSE ParsePlates(pls \o ParsePlate(Head(nodes)), Tail(nodes))

----------------------------------------------------------------------------
(* The settings resolver.  self.project_settings is what json.load          *)
(* returned: [t |-> "dict", s |-> a function from keys to values] for a     *)
(* JSON object.                                                            *)

DictV(f) == [t |-> "dict", s |-> f]
NoSettings == DictV(<<>>)

\* get() that forgets its default
SettingsGet_NoDefault(ps, key, default) == IF key \in DOMAIN ps.s THEN ps.s[key] ELSE EmptyStr

\* self.project_settings.get(key, default)
SettingsGet(ps, key, default) == IF key \in DOMAIN ps.s THEN ps.s[key] ELSE default

\* _get_value that takes the first element of a list whatever the index
_get_value_IndexIgnored(ps, key, default, index) ==
    LET val == SettingsGet(ps, key, default)
    IN  IF val.t = "list" /\ val.s # <<>> THEN val.s[1] ELSE val

_get_value(ps, key, default, index) ==
    LET val == SettingsGet(ps, key, default)
    IN  IF val.t = "list"
        THEN IF index = -1 THEN val
             ELSE IF val.s = <<>> THEN default
             ELSE IF 0 <= index /\ index < Len(val.s) THEN val.s[index + 1]
             ELSE default
        ELSE val

Unknown == StrV(<<"U", "n", "k", "n", "o", "w", "n">>)

_get_profile_info(ps) ==
    [printer |-> SettingsGet(ps, K_printer_settings_id, Unknown),
     process |-> SettingsGet(ps, K_print_settings_id, Unknown),
     filaments |-> SettingsGet(ps, K_filament_settings_id, ListV(<<Unknown>>)),
     layer_height |-> _get_value(ps, K_layer_height, EmptyStr, 0),
     initial_layer_print_height |-> _get_value(ps, <<"i", "n", "i", "t", "i", "a", "l", "_", "l", "a", "y", "e", "r", "_", "p", "r", "i", "n", "t", "_", "h", "e", "i", "g", "h", "t">>, EmptyStr, 0),
     nozzle |-> _get_value(ps, <<"n", "o", "z", "z", "l", "e", "_", "d", "i", "a", "m", "e", "t", "e", "r">>, EmptyStr, 0),
     line_width |-> _get_value(ps, <<"l", "i", "n", "e", "_", "w", "i", "d", "t", "h">>, EmptyStr, 0),
     wall_loops |-> _get_value(ps, K_wall_loops, EmptyStr, 0),
     sparse_infill_density |-> _get_value(ps, K_sparse_infill_density, EmptyStr, 0),
     brim_type |-> _get_value(ps, K_brim_type, EmptyStr, 0),
     enable_support |-> _get_value(ps, K_enable_support, EmptyStr, 0),
     print_flow_ratio |-> _get_value(ps, <<"p", "r", "i", "n", "t", "_", "f", "l", "o", "w", "_", "r", "a", "t", "i", "o">>, EmptyStr, 0),
     filament_flow_ratio |-> _get_value(ps, <<"f", "i", "l", "a", "m", "e", "n", "t", "_", "f", "l", "o", "w", "_", "r", "a", "t", "i", "o">>, EmptyStr, 0),
     initial_layer_speed |-> _get_value(ps, <<"i", "n", "i", "t", "i", "a", "l", "_", "l", "a", "y", "e", "r", "_", "s", "p", "e", "e", "d">>, EmptyStr, 0),
     outer_wall_speed |-> _get_value(ps, K_outer_wall_speed, EmptyStr, 0),
     inner_wall_speed |-> _get_value(ps, K_inner_wall_speed, EmptyStr, 0),
     sparse_infill_speed |-> _get_value(ps, <<"s", "p", "a", "r", "s", "e", "_", "i", "n", "f", "i", "l", "l", "_", "s", "p", "e", "e", "d">>, EmptyStr, 0),
     top_surface_speed |-> _get_value(ps, <<"t", "o", "p", "_", "s", "u", "r", "f", "a", "c", "e", "_", "s", "p", "e", "e", "d">>, EmptyStr, 0),
     travel_speed |-> _get_value(ps, <<"t", "r", "a", "v", "e", "l", "_", "s", "p", "e", "e", "d">>, EmptyStr, 0),
     bridge_speed |-> _get_value(ps, <<"b", "r", "i", "d", "g", "e", "_", "s", "p", "e", "e", "d">>, EmptyStr, 0),
     top_shell_layers |-> _get_value(ps, <<"t", "o", "p", "_", "s", "h", "e", "l", "l", "_", "l", "a", "y", "e", "r", "s">>, EmptyStr, 0),
     bottom_shell_layers |-> _get_value(ps, <<"b", "o", "t", "t", "o", "m", "_", "s", "h", "e", "l", "l", "_", "l", "a", "y", "e", "r", "s">>, EmptyStr, 0),
     seam_position |-> _get_value(ps, <<"s", "e", "a", "m", "_", "p", "o", "s", "i", "t", "i", "o", "n">>, EmptyStr, 0),
     sparse_infill_pattern |-> _get_value(ps, <<"s", "p", "a", "r", "s", "e", "_", "i", "n", "f", "i", "l", "l", "_", "p", "a", "t", "t", "e", "r", "n">>, EmptyStr, 0),
     top_surface_pattern |-> _get_value(ps, <<"t", "o", "p", "_", "s", "u", "r", "f", "a", "c", "e", "_", "p", "a", "t", "t", "e", "r", "n">>, EmptyStr, 0),
     ironing_type |-> _get_value(ps, <<"i", "r", "o", "n", "i", "n", "g", "_", "t", "y", "p", "e">>, EmptyStr, 0),
     fuzzy_skin |-> _get_value(ps, <<"f", "u", "z", "z", "y", "_", "s", "k", "i", "n">>, EmptyStr, 0),
     spiral_mode |-> _get_value(ps, <<"s", "p", "i", "r", "a", "l", "_", "m", "o", "d", "e">>, EmptyStr, 0),
     retraction_length |-> _get_value(ps, <<"r", "e", "t", "r", "a", "c", "t", "i", "o", "n", "_", "l", "e", "n", "g", "t", "h">>, EmptyStr, 0),
     retraction_speed |-> _get_value(ps, <<"r", "e", "t", "r", "a", "c", "t", "i", "o", "n", "_", "s", "p", "e", "e", "d">>, EmptyStr, 0),
     z_hop |-> _get_value(ps, <<"z", "_", "h", "o", "p">>, EmptyStr, 0),
     fan_min_speed |-> _get_value(ps, <<"f", "a", "n", "_", "m", "i", "n", "_", "s", "p", "e", "e", "d">>, EmptyStr, 0),
     fan_max_speed |-> _get_value(ps, <<"f", "a", "n", "_", "m", "a", "x", "_", "s", "p", "e", "e", "d">>, EmptyStr, 0),
     slow_down_for_layer_cooling |-> _get_value(ps, <<"s", "l", "o", "w", "_", "d", "o", "w", "n", "_", "f", "o", "r", "_", "l", "a", "y", "e", "r", "_", "c", "o", "o", "l", "i", "n", "g">>, EmptyStr, 0),
     slow_down_layer_time |-> _get_value(ps, <<"s", "l", "o", "w", "_", "d", "o", "w", "n", "_", "l", "a", "y", "e", "r", "_", "t", "i", "m", "e">>, EmptyStr, 0),
     pressure_advance |-> _get_value(ps, <<"p", "r", "e", "s", "s", "u", "r", "e", "_", "a", "d", "v", "a", "n", "c", "e">>, EmptyStr, 0),
     enable_arc_fitting |-> _get_value(ps, <<"e", "n", "a", "b", "l", "e", "_", "a", "r", "c", "_", "f", "i", "t", "t", "i", "n", "g">>, EmptyStr, 0),
     enable_overhang_speed |-> _get_value(ps, <<"e", "n", "a", "b", "l", "e", "_", "o", "v", "e", "r", "h", "a", "n", "g", "_", "s", "p", "e", "e", "d">>, EmptyStr, 0),
     print_sequence |-> _get_value(ps, <<"p", "r", "i", "n", "t", "_", "s", "e", "q", "u", "e", "n", "c", "e">>, EmptyStr, 0),
     timelapse_type |-> _get_value(ps, <<"t", "i", "m", "e", "l", "a", "p", "s", "e", "_", "t", "y", "p", "e">>, EmptyStr, 0),
     support_type |-> _get_value(ps, <<"s", "u", "p", "p", "o", "r", "t", "_", "t", "y", "p", "e">>, EmptyStr, 0),
     nozzle_temperature |-> _get_value(ps, <<"n", "o", "z", "z", "l", "e", "_", "t", "e", "m", "p", "e", "r", "a", "t", "u", "r", "e">>, EmptyStr, 0),
     bed_temperature |-> _get_value(ps, <<"h", "o", "t", "_", "p", "l", "a", "t", "e", "_", "t", "e", "m", "p">>, EmptyStr, 0)]

\* str.split(sep) for a one-character separator
RECURSIVE Split(_, _)
Split(s, sep) ==
    IF \E i \in 1..Len(s) : s[i] = sep
    THEN LET i == CHOOSE j \in 1..Len(s) : s[j] = sep /\ \A k \in 1..(j - 1) : s[k] # sep
         IN  <<SubSeq(s, 1, i - 1)>> \o Split(SubSeq(s, i + 1, Len(s)), sep)
    ELSE <<s>>

\* [k.strip() for k in tokens if k.strip()]
RECURSIVE StripNonEmpty(_)
StripNonEmpty(tokens) ==
    IF tokens = <<>> THEN <<>>
    ELSE (IF Strip(Head(tokens)) # <<>> THEN <<Strip(Head(tokens))>> ELSE <<>>)
         \o StripNonEmpty(Tail(tokens))

RECURSIVE CollectCustom(_, _, _)
CollectCustom(ps, keys, custom) ==
    IF keys = <<>> THEN custom
    ELSE LET key == Head(keys)
             value == ps.s[key]
             unwrapped == IF value.t = "list" /\ Len(value.s) = 1 THEN value.s[1] ELSE value
         IN  CollectCustom(ps, Tail(keys),
                           IF key \in DOMAIN ps.s THEN DictSet(custom, key, unwrapped)
                           ELSE custom)

\* [raises |-> "none", value |-> the mapping], or the exception the
\* subscript or the split raises on a value that is no list of strings.
_get_custom_global_settings(ps) ==
    LET diff_settings ==
            SettingsGet(ps, K_different_settings_to_system, ListV(<<>>))
        first == IF diff_settings.t = "list" THEN diff_settings.s[1]
                 ELSE StrV(<<Head(diff_settings.s)>>)
    IN  IF ~Truthy(diff_settings) THEN [raises |-> "none", value |-> EmptyDict]
        ELSE IF diff_settings.t = "dict" THEN [raises |-> "KeyError", value |-> EmptyDict]
        ELSE IF diff_settings.t \notin {"list", "str"}
             THEN [raises |-> "TypeError", value |-> EmptyDict]
        ELSE IF ~Truthy(first) THEN [raises |-> "none", value |-> EmptyDict]
        ELSE IF first.t # "str" THEN [raises |-> "AttributeError", value |-> EmptyDict]
        ELSE [raises |-> "none",
              value |-> CollectCustom(ps, StripNonEmpty(Split(first.s, ";")), EmptyDict)]

----------------------------------------------------------------------------
(* The row builder                                                         *)

\* _is_custom comparing the values themselves, not their str()
_is_custom_Typed(obj_val, global_val) ==
    IF obj_val = None THEN FALSE ELSE obj_val # global_val

_is_custom(obj_val, global_val) ==
    IF obj_val = None THEN FALSE ELSE PyStr(obj_val) # PyStr(global_val)

_format_brim(brim_type) ==
    IF ~Truthy(brim_type) THEN EmptyStr
    ELSE CASE brim_type = StrV(<<"b", "r", "i", "m", "_", "e", "a", "r", "s">>) ->
                  StrV(<<"M", "o", "u", "s", "e", " ", "e", "a", "r">>)
           [] brim_type = StrV(<<"n", "o", "_", "b", "r", "i", "m">>) -> StrV(<<"N", "o">>)
           [] brim_type = StrV(<<"o", "u", "t", "e", "r", "_", "o", "n", "l", "y">>) ->
                  StrV(<<"O", "u", "t", "e", "r">>)
           [] brim_type = StrV(<<"i", "n", "n", "e", "r", "_", "o", "n", "l", "y">>) ->
                  StrV(<<"I", "n", "n", "e", "r">>)
           [] brim_type = StrV(<<"o", "u", "t", "e", "r", "_", "a", "n", "d", "_", "i", "n", "n", "e", "r">>) ->
                  StrV(<<"B", "o", "t", "h">>)
           [] OTHER -> brim_type

NotPercent(c) == c # "%"

_format_infill(value) ==
    IF value = None THEN EmptyStr ELSE StrV(SelectSeq(PyStr(value), NotPercent))

On == StrV(<<"O", "n">>)
Off == StrV(<<"O", "f", "f">>)

\* dict.get(key, default) on obj_data, part_data or the {} of a dangling reference
NoObject == [k \in {} |-> None]
ObjGet(obj, key, default) == IF key \in DOMAIN obj THEN obj[key] ELSE default

\* A fallback name that is the bare id
ObjectLabel_IdOnly(obj_id) == StrV(PyStr(obj_id))

\* f'Object {obj_id}'
ObjectLabel(obj_id) == StrV(<<"O", "b", "j", "e", "c", "t", " ">> \o PyStr(obj_id))

ParentRow(profile, plate_num, obj_id, obj) ==
    LET obj_support == PyOr(ObjGet(obj, "enable_support", None), profile.enable_support)
    IN  [plate |-> plate_num,
         name |-> ObjGet(obj, "name", ObjectLabel(obj_id)),
         is_parent |-> TRUE,
         is_part |-> FALSE,
         filament |-> ObjGet(obj, "extruder", DEFAULT_EXTRUDER),
         layer_height |-> PyOr(ObjGet(obj, "layer_height", None), profile.layer_height),
         layer_custom |-> _is_custom(ObjGet(obj, "layer_height", None), profile.layer_height),
         wall_loops |-> PyOr(ObjGet(obj, "wall_loops", None), profile.wall_loops),
         walls_custom |-> _is_custom(ObjGet(obj, "wall_loops", None), profile.wall_loops),
         infill |-> _format_infill(PyOr(ObjGet(obj, "sparse_infill_density", None),
                                        profile.sparse_infill_density)),
         infill_custom |-> _is_custom(ObjGet(obj, "sparse_infill_density", None),
                                      profile.sparse_infill_density),
         support |-> IF obj_support = BOOL_TRUE THEN On ELSE Off,
         support_custom |-> _is_custom(ObjGet(obj, "enable_support", None),
                                       profile.enable_support),
         brim |-> _format_brim(PyOr(ObjGet(obj, "brim_type", None), profile.brim_type)),
         brim_custom |-> _is_custom(ObjGet(obj, "brim_type", None), profile.brim_type),
         outer_wall_speed |-> PyOr(ObjGet(obj, "outer_wall_speed", None),
                                   profile.outer_wall_speed),
         speed_custom |-> _is_custom(ObjGet(obj, "outer_wall_speed", None),
                                     profile.outer_wall_speed),
         custom_settings |-> ObjGet(obj, "custom_settings", EmptyDict)]

\* 'wall_loops' in part_custom, tested by the value's truth instead
InPartCustom_ByValue(part_custom, key) == Truthy(DictGet(part_custom, key, None))

\* key in part_custom
InPartCustom(part_custom, key) == DictHas(part_custom, key)

\* the part name without its indentation
PartLabel_NoIndent(part_name) == StrV(PyStr(part_name))

\* f"  {part_name}"
PartLabel(part_name) == StrV(<<" ", " ">> \o PyStr(part_name))

\* part_support that is Off whatever the parent's support
part_support_Off(obj_support) == Off

\* 'On' if obj_support == BOOL_TRUE else 'Off': a part inherits its support
part_support(obj_support) == IF obj_support = BOOL_TRUE THEN On ELSE Off

\* part_infill with the alias keys tried in the other order
part_infill_SkeletonFirst(part_custom, obj_infill) ==
    PyOr(PyOr(DictGet(part_custom, K_skeleton_infill_density, None),
              DictGet(part_custom, K_sparse_infill_density, None)),
         obj_infill)

\* part_custom.get('sparse_infill_density')
\*     or part_custom.get('skeleton_infill_density') or obj_infill
part_infill(part_custom, obj_infill) ==
    PyOr(PyOr(DictGet(part_custom, K_sparse_infill_density, None),
              DictGet(part_custom, K_skeleton_infill_density, None)),
         obj_infill)

PartRow(profile, obj, part) ==
    LET obj_infill == PyOr(ObjGet(obj, "sparse_infill_density", None),
                           profile.sparse_infill_density)
        obj_walls == PyOr(ObjGet(obj, "wall_loops", None), profile.wall_loops)
        obj_support == PyOr(ObjGet(obj, "enable_support", None), profile.enable_support)
        obj_speed == PyOr(ObjGet(obj, "outer_wall_speed", None), profile.outer_wall_speed)
        obj_extruder == ObjGet(obj, "extruder", DEFAULT_EXTRUDER)
        part_name == ObjGet(part, "name", StrV(<<"P", "a", "r", "t">>))
        part_custom == ObjGet(part, "custom_settings", EmptyDict)
    IN  [plate |-> EmptyStr,
         name |-> PartLabel(part_name),
         is_parent |-> FALSE,
         is_part |-> TRUE,
         filament |-> PyOr(ObjGet(part, "extruder", None), obj_extruder),
         layer_height |-> EmptyStr,
         layer_custom |-> FALSE,
         wall_loops |-> PyOr(DictGet(part_custom, K_wall_loops, None), obj_walls),
         walls_custom |-> InPartCustom(part_custom, K_wall_loops),
         infill |-> _format_infill(part_infill(part_custom, obj_infill)),
         infill_custom |-> \E i \in 1..Len(INFILL_DENSITY_KEYS) :
                               InPartCustom(part_custom, INFILL_DENSITY_KEYS[i]),
         support |-> part_support(obj_support),
         support_custom |-> FALSE,
         brim |-> EmptyStr,
         brim_custom |-> FALSE,
         outer_wall_speed |-> PyOr(DictGet(part_custom, K_outer_wall_speed, None), obj_speed),
         speed_custom |-> InPartCustom(part_custom, K_outer_wall_speed),
         custom_settings |-> part_custom]

\* SkipParts looking at the first part only, however many parts there are
SkipParts_AnyCount(obj_name, parts) ==
    Len(parts) >= 1 /\ ObjGet(parts[1], "name", StrV(<<"P", "a", "r", "t">>)) = obj_name

\* Whether the parts of an object are skipped: one part named like the object.
SkipParts(obj_name, parts) ==
    Len(parts) = 1 /\ ObjGet(parts[1], "name", StrV(<<"P", "a", "r", "t">>)) = obj_name

\* The rows of one object reference of a plate: the parent row, then its parts.
ObjectRows(profile, objs, plate_num, obj_id) ==
    LET obj == IF obj_id \in DOMAIN objs THEN objs[obj_id] ELSE NoObject
        obj_name == ObjGet(obj, "name", ObjectLabel(obj_id))
        parts == ObjGet(obj, "parts", <<>>)
    IN  <<ParentRow(profile, plate_num, obj_id, obj)>>
        \o (IF SkipParts(obj_name, parts) THEN <<>>
            ELSE [i \in 1..Len(parts) |-> PartRow(profile, obj, parts[i])])

RECURSIVE PlateRows(_, _, _, _)
PlateRows(profile, objs, plate_num, obj_ids) ==
    IF obj_ids = <<>> THEN <<>>
    ELSE ObjectRows(profile, objs, plate_num, Head(obj_ids))
         \o PlateRows(profile, objs, plate_num, Tail(obj_ids))

\* BuildRows walking the plate list from its end
RECURSIVE BuildRows_Reversed(_, _, _)
BuildRows_Reversed(profile, objs, pls) ==
    IF pls = <<>> THEN <<>>
    ELSE BuildRows_Reversed(profile, objs, Tail(pls))
         \o PlateRows(profile, objs, Head(pls).id, Head(pls).objects)

RECURSIVE BuildRows(_, _, _)
BuildRows(profile, objs, pls) ==
    IF pls = <<>> THEN <<>>
    ELSE PlateRows(profile, objs, Head(pls).id, Head(pls).objects)
         \o BuildRows(profile, objs, Tail(pls))

\* [raises, value]: the result dictionary, or the exception that leaves
\* _build_result (a settings document that is no JSON object has no get()).
_build_result(ps, objs, pls) ==
    IF ps.t # "dict" THEN [raises |-> "AttributeError", value |-> None]
    ELSE LET profile == _get_profile_info(ps)
             rows == BuildRows(profile, objs, pls)
             custom == _get_custom_global_settings(ps)
         IN  IF custom.raises # "none" THEN [raises |-> custom.raises, value |-> None]
             ELSE [raises |-> "none",
                   value |-> [profile |-> profile, profile_full |-> ps,
                              custom_global |-> custom.value, rows |-> rows]]

----------------------------------------------------------------------------
(* Paths and the archive.  A member name is [abs, parts]: whether it       *)
(* starts with "/", and its components.  A directory is the sequence of    *)
(* its components from the root; no symbolic links.                        *)

\* self.temp_dir is None
NoTempDir == <<>>
\* the directory tempfile.mkdtemp() creates
ScratchDir == <<"tmp", "scratch">>

SettingsPath == <<"Metadata", "project_settings.config">>
ModelPath == <<"Metadata", "model_settings.config">>

\* Path.resolve() of the components `parts` below `base`
RECURSIVE ResolveFrom(_, _)
ResolveFrom(base, parts) ==
    IF parts = <<>> THEN base
    ELSE LET c == Head(parts)
         IN  ResolveFrom(CASE c = "." -> base
                           [] c = ".." -> IF base = <<>> THEN base
                                          ELSE SubSeq(base, 1, Len(base) - 1)
                           [] OTHER -> Append(base, c),
                         Tail(parts))

\* (self.temp_dir / member).resolve()
TargetPath(dir, member) ==
    IF member.abs THEN ResolveFrom(<<>>, member.parts) ELSE ResolveFrom(dir, member.parts)

\* Path.is_relative_to
IsRelativeTo(path, dir) == Len(path) >= Len(dir) /\ SubSeq(path, 1, Len(dir)) = dir

\* MemberCheck without the resolved-target test: only absolute names are refused.
MemberCheck_AbsoluteOnly(dir, member) == IF member.abs THEN "absolute" ELSE "ok"

\* The check of one member in _extract: "ok" or the ValueError it raises.
MemberCheck(dir, member) ==
    IF member.abs THEN "absolute"
    ELSE IF ~IsRelativeTo(TargetPath(dir, member), dir) THEN "traversal"
    ELSE "ok"

\* Where ZipFile.extractall writes a member, relative to the directory: the
\* name without its "", "." and ".." components.
KeepPart(c) == c \notin {".", ".."}
ArcName(member) == SelectSeq(member.parts, KeepPart)

\* extractall stops with an OSError at a member whose name is left empty
\* (the target is the directory itself); the members before it are written.
RECURSIVE ExtractMembers(_, _)
ExtractMembers(members, written) ==
    IF members = <<>> THEN [raises |-> "none", written |-> written]
    ELSE IF ArcName(Head(members)) = <<>> THEN [raises |-> "OSError", written |-> written]
    ELSE ExtractMembers(Tail(members), written \cup {ArcName(Head(members))})

\* _cleanup_on_error that leaves the directory in place
_cleanup_on_error_Skipped(dirs, dir) == dirs

\* shutil.rmtree(self.temp_dir) of _cleanup and _cleanup_on_error, on the
\* set of existing scratch directories
_cleanup(dirs, dir) == IF dir # NoTempDir /\ dir \in dirs THEN dirs \ {dir} ELSE dirs
_cleanup_on_error(dirs, dir) == IF dir # NoTempDir /\ dir \in dirs THEN dirs \ {dir} ELSE dirs

----------------------------------------------------------------------------
(* The input files.  Init draws the file from six families, each varying   *)
(* one part of the input around a base project.                            *)

MaxMembers == 2     \* members of an archive (archive family)
MaxInst == 3        \* model instances of a hierarchy document (plate family)
MaxPlates == 2      \* plate nodes of a hierarchy document (plate family)
MaxParts == 2       \* parts of an object (part families)
MaxCalls == 2       \* analyze() calls on one analyzer

SeqsUpTo(S, n) == UNION {[1..k -> S] : k \in 0..n}

Meta(k, v) == [key |-> k, value |-> v]
Rel(parts) == [abs |-> FALSE, parts |-> parts]
Abs(parts) == [abs |-> TRUE, parts |-> parts]

Absent == [st |-> "absent", val |-> None]
Invalid == [st |-> "invalid", val |-> None]
Document(v) == [st |-> "ok", val |-> v]

ZipArchive(members, settings, model) ==
    [kind |-> "zip", members |-> members, settings |-> settings, model |-> model]
NotAnArchive(kind) == [kind |-> kind, members |-> <<>>, settings |-> Absent, model |-> Absent]

BaseMembers == <<Rel(SettingsPath), Rel(ModelPath)>>

S_A == StrV(<<"A">>)
S_B == StrV(<<"B">>)
S_Part == StrV(<<"P", "a", "r", "t">>)
S_0 == StrV(<<"0">>)
S_1 == StrV(<<"1">>)
S_2 == StrV(<<"2">>)
S_3 == StrV(<<"3">>)
S_4 == StrV(<<"4">>)
S_9 == StrV(<<"9">>)
S_0_2 == StrV(<<"0", ".", "2">>)
S_0_20 == StrV(<<"0", ".", "2", "0">>)
S_15pct == StrV(<<"1", "5", "%">>)
S_30pct == StrV(<<"3", "0", "%">>)
S_50pct == StrV(<<"5", "0", "%">>)
S_no_brim == StrV(<<"n", "o", "_", "b", "r", "i", "m">>)
K_fuzzy_skin == <<"f", "u", "z", "z", "y", "_", "s", "k", "i", "n">>

BaseSettings ==
    DictV(K_printer_settings_id :> StrV(<<"A", "1">>)
          @@ K_filament_settings_id :> ListV(<<StrV(<<"P", "L", "A">>)>>)
          @@ K_layer_height :> S_0_2
          @@ K_wall_loops :> S_2
          @@ K_sparse_infill_density :> S_15pct
          @@ K_enable_support :> S_0
          @@ K_brim_type :> S_no_brim
          @@ K_outer_wall_speed :> ListV(<<StrV(<<"6", "0">>)>>)
          @@ K_different_settings_to_system :> ListV(<<StrV(K_wall_loops)>>))

\* Valid JSON whose different_settings_to_system holds a number, not a string.
IllTypedSettings ==
    DictV(K_printer_settings_id :> StrV(<<"A", "1">>)
          @@ K_different_settings_to_system :> ListV(<<NumV(<<"5">>)>>))

OnePlate(insts) ==
    <<[metadata |-> <<Meta(K_plater_id, S_1)>>, instances |-> insts]>>
OneInstance == <<<<Meta(K_object_id, S_1), Meta(K_identify_id, S_1)>>>>
ObjectNode(id, metas, parts) == [id |-> id, metadata |-> metas, parts |-> parts]

\* One object with one part of its own name, on one plate.
BaseDoc ==
    [objects |-> <<ObjectNode(S_1, <<Meta(K_name, S_A)>>, << <<Meta(K_name, S_A)>> >>)>>,
     plates |-> OnePlate(OneInstance)]

(* Archive family: any file, any member list.                              *)
MemberNames ==
    {Rel(SettingsPath), Rel(ModelPath), Rel(<<"3D", "3dmodel.model">>),
     Abs(<<"etc", "passwd">>), Rel(<<"..", "..", "etc", "passwd">>),
     Rel(<<"..", "scratch", "x">>), Rel(<<".">>)}

HasMember(members, path) == \E i \in 1..Len(members) : ArcName(members[i]) = path

\* A document is in the archive exactly when a member carries it.
WellFormed(f) ==
    f.kind = "zip" =>
        /\ (f.settings.st # "absent") = HasMember(f.members, SettingsPath)
        /\ (f.model.st # "absent") = HasMember(f.members, ModelPath)

ArchiveFile(f) ==
    \/ f \in {NotAnArchive("missing"), NotAnArchive("notzip")}
    \/ \E ms \in SeqsUpTo(MemberNames, MaxMembers) :
       \E st \in {Absent, Invalid, Document(NoSettings), Document(BaseSettings),
                  Document(ListV(<<>>)), Document(IllTypedSettings)} :
       \E md \in {Absent, Invalid, Document(BaseDoc)} :
          /\ WellFormed(ZipArchive(ms, st, md))
          /\ f = ZipArchive(ms, st, md)

(* Object family: one object whose metadata overrides one tracked field,   *)
(* against a profile that sets the same field.                             *)
TrackedKeys ==
    {K_layer_height, K_wall_loops, K_sparse_infill_density, K_enable_support,
     K_brim_type, K_outer_wall_speed}
ObjKeys == TrackedKeys \cup {K_skeleton_infill_density}
ProfileKeyOf(k) == IF k = K_skeleton_infill_density THEN K_sparse_infill_density ELSE k

\* Metadata under the structural keys a slicer writes
SystemMetas ==
    <<Meta(K_matrix, S_1), Meta(K_face_count, S_4), Meta(K_source_object_id, S_0),
      Meta(K_source_volume_id, S_0), Meta(K_source_offset_x, S_0),
      Meta(K_source_offset_y, S_0), Meta(K_source_offset_z, S_0)>>

XmlVals == {None, EmptyStr, S_0, S_1, S_0_2, S_0_20, S_15pct, S_no_brim}
ShortVals == {None, EmptyStr, S_0_2, S_15pct}
ProfileVals ==
    {S_0_2, NumV(<<"0", ".", "2">>), S_1, S_0, EmptyStr, None, S_no_brim,
     ListV(<<>>), ListV(<<S_15pct>>), ListV(<<S_1, S_0_2>>)}

ObjMetaLists ==
    {<<Meta(k, v)>> : k \in ObjKeys, v \in XmlVals}
    \cup {SystemMetas \o <<Meta(K_fuzzy_skin, S_1)>>}
    \cup {<<Meta(kk[1], v1), Meta(kk[2], v2)>> :
            kk \in {p \in ObjKeys \X ObjKeys : ProfileKeyOf(p[1]) = ProfileKeyOf(p[2])},
            v1 \in ShortVals, v2 \in ShortVals}

ObjectSettings(metas) ==
    {Document(NoSettings)}
    \cup {Document(DictV(ProfileKeyOf(metas[1].key) :> pv)) : pv \in ProfileVals}

ObjectFile(f) ==
    \E metas \in ObjMetaLists : \E st \in ObjectSettings(metas) :
        f = ZipArchive(BaseMembers, st,
                       Document([objects |-> <<ObjectNode(S_1, <<Meta(K_name, S_A)>> \o metas,
                                                          <<>>)>>,
                                 plates |-> OnePlate(OneInstance)]))

(* Plate family: MaxPlates plate nodes sharing up to MaxInst instances;    *)
(* the instances reference object 1, object 2 and the missing object 9 in  *)
(* turn.                                                                   *)
IdentVals == {S_1, S_2, S_3}
RefCycle == <<S_1, S_2, S_9>>
RefAt(j) == RefCycle[((j - 1) % Len(RefCycle)) + 1]
PlateNumber(k) == StrV(<<DigitChars[k + 1]>>)

PlateObjectsNodes ==
    <<ObjectNode(S_1, <<Meta(K_name, S_A)>>, <<>>),
      ObjectNode(S_2, <<Meta(K_name, S_B), Meta(K_wall_loops, S_4)>>,
                 << <<Meta(K_name, S_Part)>> >>)>>

Cuts(n) ==
    {c \in [0..MaxPlates -> 0..n] :
        /\ c[0] = 0
        /\ c[MaxPlates] = n
        /\ \A k \in 1..MaxPlates : c[k - 1] <= c[k]}

PlateNodes(idents, cut, ids) ==
    [k \in 1..MaxPlates |->
        [metadata |-> IF ids[k] THEN <<Meta(K_plater_id, PlateNumber(k))>> ELSE <<>>,
         instances |-> [j \in 1..(cut[k] - cut[k - 1]) |->
                          <<Meta(K_object_id, RefAt(cut[k - 1] + j)),
                            Meta(K_identify_id, idents[cut[k - 1] + j])>>]]]

\* Which plate nodes carry a plater_id: all of them, all but one, or none.
PlateIds ==
    {ids \in [1..MaxPlates -> BOOLEAN] :
        Cardinality({k \in 1..MaxPlates : ~ids[k]}) \in {0, 1, MaxPlates}}

PlateFile(f) ==
    \E idents \in SeqsUpTo(IdentVals, MaxInst) :
    \E cut \in Cuts(Len(idents)) :
    \E ids \in PlateIds :
        f = ZipArchive(BaseMembers, Document(BaseSettings),
                       Document([objects |-> PlateObjectsNodes,
                                 plates |-> PlateNodes(idents, cut, ids)]))

(* Identify family: one plate whose instances reference object 1 and      *)
(* object 2 in turn; the identify_id metadata of each instance varies.     *)
MaxRefs == 2        \* model instances of the plate (identify family)

S_x == StrV(<<"x">>)
S_1_5 == StrV(<<"1", ".", "5">>)
IdentifyMetas ==
    {<<>>,
     <<Meta(K_identify_id, None)>>,
     <<Meta(K_identify_id, S_x)>>,
     <<Meta(K_identify_id, S_1_5)>>,
     <<Meta(K_identify_id, S_2)>>,
     <<Meta(K_identify_id, S_3), Meta(K_identify_id, EmptyStr)>>}

IdentifyFile(f) ==
    \E idents \in SeqsUpTo(IdentifyMetas, MaxRefs) :
        f = ZipArchive(BaseMembers, Document(BaseSettings),
                       Document([objects |-> PlateObjectsNodes,
                                 plates |-> OnePlate([j \in 1..Len(idents) |->
                                               <<Meta(K_object_id, RefAt(j))>> \o idents[j]])]))

(* Part families: one object with up to MaxParts parts; the names vary, or *)
(* the settings of the parts do.                                           *)
NameMetas == {<<>>, <<Meta(K_name, S_A)>>, <<Meta(K_name, S_B)>>, <<Meta(K_name, S_Part)>>}

PartSettingMetas ==
    {<<>>,
     <<Meta(K_extruder, S_2), Meta(K_wall_loops, S_2)>>,
     <<Meta(K_extruder, EmptyStr), Meta(K_wall_loops, S_4), Meta(K_outer_wall_speed, S_3)>>,
     <<Meta(K_wall_loops, S_0), Meta(K_outer_wall_speed, S_0)>>,
     <<Meta(K_wall_loops, EmptyStr)>>,
     <<Meta(K_wall_loops, None)>>,
     <<Meta(K_sparse_infill_density, S_30pct)>>,
     <<Meta(K_skeleton_infill_density, S_50pct)>>,
     <<Meta(K_skeleton_infill_density, S_50pct), Meta(K_sparse_infill_density, S_30pct)>>,
     <<Meta(K_sparse_infill_density, EmptyStr), Meta(K_skeleton_infill_density, S_50pct)>>,
     <<Meta(K_layer_height, S_0_20), Meta(K_brim_type, S_no_brim),
       Meta(K_enable_support, S_1)>>,
     SystemMetas \o <<Meta(K_fuzzy_skin, S_1)>>}

OneObjectFile(metas, parts) ==
    ZipArchive(BaseMembers, Document(BaseSettings),
               Document([objects |-> <<ObjectNode(S_1, metas, parts)>>,
                         plates |-> OnePlate(OneInstance)]))

PartNameFile(f) ==
    \E metas \in NameMetas : \E parts \in SeqsUpTo(NameMetas, MaxParts) :
        f = OneObjectFile(metas, parts)

PartSettingFile(f) ==
    \E metas \in {<<>>, <<Meta(K_wall_loops, S_4), Meta(K_enable_support, S_1)>>} :
    \E parts \in SeqsUpTo({<<Meta(K_name, S_B)>> \o m : m \in PartSettingMetas}, MaxParts) :
        f = OneObjectFile(<<Meta(K_name, S_A)>> \o metas, parts)

----------------------------------------------------------------------------
(* The state after ThreeMFAnalyzer(filepath)                               *)

\* The fields of a ThreeMFAnalyzer after __init__
Constructed ==
    /\ pc = "idle"
    /\ temp_dir = NoTempDir
    /\ fs_dirs = {}
    /\ extracted = {}
    /\ member_idx = 1
    /\ project_settings = NoSettings
    /\ objects = <<>>
    /\ plates = <<>>
    /\ result = None
    /\ exc = "none"
    /\ calls = 0

NoCall == [name |-> "none", args |-> <<>>, again |-> FALSE]

\* threading.Lock(): not held
Unlocked == 0
\* A thread that has not called the wiki module
IdleThread == [pc |-> "idle", ret |-> None]

\* settings_wiki after import: _cache = None and a new lock
Imported ==
    /\ _cache = None
    /\ _cache_lock = Unlocked
    /\ heap = 0

\* The wiki module is imported and not used
WikiUnused ==
    /\ Imported
    /\ threads = <<>>
    /\ disk = [json |-> "absent", cpp |-> FALSE]

Init ==
    /\ \/ ArchiveFile(file)
       \/ ObjectFile(file)
       \/ PlateFile(file)
       \/ PartNameFile(file)
       \/ PartSettingFile(file)
       \/ IdentifyFile(file)
    /\ Constructed
    /\ call = NoCall
    /\ main_pc = "none"
    /\ exit_status = None
    /\ WikiUnused

----------------------------------------------------------------------------
(* analyze(): one action per step of the pipeline                          *)

\* analyze() is called: _extract creates the scratch directory.
Analyze ==
    /\ pc \in {"idle", "done"}
    /\ calls < MaxCalls
    /\ calls' = calls + 1
    /\ temp_dir' = ScratchDir
    /\ fs_dirs' = fs_dirs \cup {ScratchDir}
    /\ member_idx' = 1
    /\ result' = None
    /\ exc' = "none"
    /\ pc' = "open"
    /\ UNCHANGED <<wiki, call, main_pc, exit_status, file, extracted, project_settings, objects, plates>>

\* An except clause of _extract: _cleanup_on_error(), then the exception
\* leaves analyze() (the try block of analyze() is not entered).
ExtractRaises(e) ==
    /\ fs_dirs' = _cleanup_on_error(fs_dirs, temp_dir)
    /\ temp_dir' = NoTempDir
    /\ extracted' = {}
    /\ exc' = e
    /\ pc' = "done"
    /\ UNCHANGED <<wiki, call, main_pc, exit_status, file, member_idx, project_settings, objects, plates, result, calls>>

\* zipfile.ZipFile(self.filepath) on a missing file or on a file that is no archive
OpenFails ==
    /\ pc = "open"
    /\ file.kind # "zip"
    /\ ExtractRaises(IF file.kind = "missing" THEN "OSError" ELSE "BadZipFile")

OpenArchive ==
    /\ pc = "open"
    /\ file.kind = "zip"
    /\ pc' = "validate"
    /\ UNCHANGED <<wiki, call, main_pc, exit_status, file, temp_dir, fs_dirs, extracted, member_idx, project_settings,
                   objects, plates, result, exc, calls>>

\* One turn of the loop over z.namelist(): the member is safe.
ValidateMember ==
    /\ pc = "validate"
    /\ member_idx <= Len(file.members)
    /\ MemberCheck(temp_dir, file.members[member_idx]) = "ok"
    /\ member_idx' = member_idx + 1
    /\ UNCHANGED <<wiki, call, main_pc, exit_status, file, pc, temp_dir, fs_dirs, extracted, project_settings,
                   objects, plates, result, exc, calls>>

\* One turn of the loop: the member is unsafe, ValueError.
RejectMember ==
    /\ pc = "validate"
    /\ member_idx <= Len(file.members)
    /\ MemberCheck(temp_dir, file.members[member_idx]) # "ok"
    /\ ExtractRaises("ValueError")

\* z.extractall(self.temp_dir), after the loop
ExtractAll ==
    /\ pc = "validate"
    /\ member_idx > Len(file.members)
    /\ ExtractMembers(file.members, {}).raises = "none"
    /\ extracted' = ExtractMembers(file.members, {}).written
    /\ pc' = "parse_project"
    /\ UNCHANGED <<wiki, call, main_pc, exit_status, file, temp_dir, fs_dirs, member_idx, project_settings,
                   objects, plates, result, exc, calls>>

ExtractAllFails ==
    /\ pc = "validate"
    /\ member_idx > Len(file.members)
    /\ ExtractMembers(file.members, {}).raises # "none"
    /\ ExtractRaises(ExtractMembers(file.members, {}).raises)

\* An exception inside the try block of analyze(): the finally clause is next.
TryRaises(e) ==
    /\ exc' = e
    /\ pc' = "finally"
    /\ UNCHANGED <<wiki, call, main_pc, exit_status, file, temp_dir, fs_dirs, extracted, member_idx, project_settings,
                   objects, plates, result, calls>>

_parse_project_settings ==
    /\ pc = "parse_project"
    /\ ~(SettingsPath \in extracted /\ file.settings.st = "invalid")
    /\ project_settings' = IF SettingsPath \in extracted THEN file.settings.val
                           ELSE project_settings
    /\ pc' = "parse_model"
    /\ UNCHANGED <<wiki, call, main_pc, exit_status, file, temp_dir, fs_dirs, extracted, member_idx, objects, plates,
                   result, exc, calls>>

\* An invalid settings document replaced by an empty profile
ProjectSettingsInvalid_EmptyProfile ==
    /\ pc = "parse_project"
    /\ SettingsPath \in extracted
    /\ file.settings.st = "invalid"
    /\ project_settings' = NoSettings
    /\ pc' = "parse_model"
    /\ UNCHANGED <<wiki, call, main_pc, exit_status, file, temp_dir, fs_dirs, extracted, member_idx,
                   objects, plates, result, exc, calls>>

\* json.load raises JSONDecodeError: no assignment to self.project_settings.
ProjectSettingsInvalid ==
    /\ pc = "parse_project"
    /\ SettingsPath \in extracted
    /\ file.settings.st = "invalid"
    /\ TryRaises("JSONDecodeError")

_parse_model_settings ==
    /\ pc = "parse_model"
    /\ ~(ModelPath \in extracted /\ file.model.st = "invalid")
    /\ objects' = IF ModelPath \in extracted
                  THEN ParseObjects(objects, file.model.val.objects) ELSE objects
    /\ plates' = IF ModelPath \in extracted
                 THEN ParsePlates(plates, file.model.val.plates) ELSE plates
    /\ pc' = "build"
    /\ UNCHANGED <<wiki, call, main_pc, exit_status, file, temp_dir, fs_dirs, extracted, member_idx, project_settings,
                   result, exc, calls>>

ModelSettingsInvalid ==
    /\ pc = "parse_model"
    /\ ModelPath \in extracted
    /\ file.model.st = "invalid"
    /\ TryRaises("ParseError")

BuildResult ==
    /\ pc = "build"
    /\ _build_result(project_settings, objects, plates).raises = "none"
    /\ result' = _build_result(project_settings, objects, plates).value
    /\ pc' = "finally"
    /\ UNCHANGED <<wiki, call, main_pc, exit_status, file, temp_dir, fs_dirs, extracted, member_idx, project_settings,
                   objects, plates, exc, calls>>

BuildResultRaises ==
    /\ pc = "build"
    /\ _build_result(project_settings, objects, plates).raises # "none"
    /\ TryRaises(_build_result(project_settings, objects, plates).raises)

\* finally: self._cleanup(); analyze() returns or the exception leaves it.
Cleanup ==
    /\ pc = "finally"
    /\ fs_dirs' = _cleanup(fs_dirs, temp_dir)
    /\ temp_dir' = NoTempDir
    /\ extracted' = {}
    /\ pc' = "done"
    /\ UNCHANGED <<wiki, call, main_pc, exit_status, file, member_idx, project_settings, objects, plates, result, exc, calls>>

Next ==
    \/ Analyze
    \/ OpenFails
    \/ OpenArchive
    \/ ValidateMember
    \/ RejectMember
    \/ ExtractAll
    \/ ExtractAllFails
    \/ _parse_project_settings
    \/ ProjectSettingsInvalid
    \/ _parse_model_settings
    \/ ModelSettingsInvalid
    \/ BuildResult
    \/ BuildResultRaises
    \/ Cleanup

Spec == Init /\ [][Next]_vars

----------------------------------------------------------------------------
(* The resolver's methods called directly on an analyzer whose settings    *)
(* document was read (as tests/test_analyzer.py calls them after           *)
(* analyze()).  One specification per method: its inputs are drawn by its  *)
(* Init, its action applies the method.                                    *)

MaxIndex == 2       \* the largest index _get_value is called with
MaxTokens == 3      \* names in the first element of different_settings_to_system

\* The analyzer after analyze() on an archive that holds the settings document ps only.
Loaded(ps) ==
    /\ file = ZipArchive(<<Rel(SettingsPath)>>, Document(ps), Absent)
    /\ pc = "done"
    /\ temp_dir = NoTempDir
    /\ fs_dirs = {}
    /\ extracted = {}
    /\ member_idx = 1
    /\ project_settings = ps
    /\ objects = <<>>
    /\ plates = <<>>
    /\ result = _build_result(ps, <<>>, <<>>).value
    /\ exc = _build_result(ps, <<>>, <<>>).raises
    /\ calls = 1
    /\ call = NoCall
    /\ main_pc = "none"
    /\ exit_status = None
    /\ WikiUnused

ResolverCall(name, args) ==
    [name |-> name, args |-> args, again |-> call.name = name /\ call.args = args]

\* A method of the resolver returned r = [raises, value]; the analyzer's fields
\* other than the settings are not touched.
Returned(r) ==
    /\ result' = r.value
    /\ exc' = r.raises
    /\ UNCHANGED <<wiki, file, pc, temp_dir, fs_dirs, extracted, member_idx, objects, plates,
                   calls, main_pc, exit_status>>

\* self.project_settings.<method> on a document that is no JSON object
NoDictMethod == [raises |-> "AttributeError", value |-> None]

(* _get_value *)

\* _get_value that stores the default under a missing key (dict.setdefault)
SettingsAfterGetValue_SetDefault(ps, key, default, index) ==
    IF ps.t = "dict" /\ key \notin DOMAIN ps.s
    THEN DictV([k \in DOMAIN ps.s \cup {key} |-> IF k = key THEN default ELSE ps.s[k]])
    ELSE ps

\* self.project_settings after _get_value: the method reads with get() and
\* assigns nothing.
SettingsAfterGetValue(ps, key, default, index) == ps

GetValueCall(ps, key, default, index) ==
    IF ps.t # "dict" THEN NoDictMethod
    ELSE [raises |-> "none", value |-> _get_value(ps, key, default, index)]

GetValue(key, default, index) ==
    /\ pc \in {"idle", "done"}
    /\ call' = ResolverCall("_get_value", <<key, default, index>>)
    /\ project_settings' = SettingsAfterGetValue(project_settings, key, default, index)
    /\ Returned(GetValueCall(project_settings, key, default, index))

LookupKeys == {K_layer_height, K_wall_loops}
\* The defaults the repository passes: '' (every call of _get_profile_info),
\* None (the parameter's default) and a string.
LookupDefaults == {None, EmptyStr, StrV(<<"f", "a", "l", "l", "b", "a", "c", "k">>)}
LookupIndexes == (-2)..MaxIndex

\* Settings that hold layer_height (any JSON value) and never wall_loops.
LookupSettings == {NoSettings} \cup {DictV(K_layer_height :> v) : v \in ProfileVals}

GetValueInit == \E ps \in LookupSettings : Loaded(ps)

GetValueNext ==
    \E key \in LookupKeys : \E default \in LookupDefaults : \E index \in LookupIndexes :
        GetValue(key, default, index)

GetValueSpec == GetValueInit /\ [][GetValueNext]_vars

(* _get_custom_global_settings *)

CustomGlobalCall(ps) ==
    IF ps.t # "dict" THEN NoDictMethod
    ELSE LET r == _get_custom_global_settings(ps)
         IN  [raises |-> r.raises,
              value |-> IF r.raises = "none" THEN [t |-> "odict", s |-> r.value] ELSE None]

GetCustomGlobal ==
    /\ pc \in {"idle", "done"}
    /\ call' = ResolverCall("_get_custom_global_settings", <<>>)
    /\ UNCHANGED project_settings
    /\ Returned(CustomGlobalCall(project_settings))

\* A name of the list as it is written: the key (possibly empty) between
\* `pad` blanks on either side.
Token(key, pad) == [key |-> key, pad |-> pad]
Blanks(n) == [i \in 1..n |-> " "]
TokenText(tok) == Blanks(tok.pad) \o tok.key \o Blanks(tok.pad)

\* ";".join(texts of the tokens)
RECURSIVE JoinTokens(_)
JoinTokens(toks) ==
    IF toks = <<>> THEN <<>>
    ELSE IF Len(toks) = 1 THEN TokenText(toks[1])
    ELSE TokenText(Head(toks)) \o <<";">> \o JoinTokens(Tail(toks))

\* wall_loops and fuzzy_skin are in the settings, brim_type is not.
Tokens ==
    {Token(K_wall_loops, 0), Token(K_wall_loops, 1), Token(K_fuzzy_skin, 0),
     Token(K_brim_type, 0), Token(<<>>, 0), Token(<<>>, 1)}
TokenLists == SeqsUpTo(Tokens, MaxTokens)

DiffValues ==
    {ListV(<<>>), ListV(<<None>>), ListV(<<NumV(<<"5">>)>>), NumV(<<"5">>),
     ListV(<<StrV(K_fuzzy_skin), StrV(K_wall_loops)>>)}
WallLoopsValues == {S_2, ListV(<<S_2>>), ListV(<<S_2, S_3>>), ListV(<<>>)}

WithDiff(d, rest) == DictV(K_different_settings_to_system :> d @@ rest)

CustomGlobalInit ==
    \E wl \in WallLoopsValues :
        LET rest == K_wall_loops :> wl @@ K_fuzzy_skin :> ListV(<<S_1>>)
        IN  \/ Loaded(DictV(rest))
            \/ \E d \in DiffValues : Loaded(WithDiff(d, rest))
            \/ \E toks \in TokenLists : Loaded(WithDiff(ListV(<<StrV(JoinTokens(toks))>>), rest))

CustomGlobalNext == GetCustomGlobal

CustomGlobalSpec == CustomGlobalInit /\ [][CustomGlobalNext]_vars

(* _get_profile_info *)

ProfileInfoCall(ps) ==
    IF ps.t # "dict" THEN NoDictMethod
    ELSE [raises |-> "none", value |-> _get_profile_info(ps)]

GetProfileInfo ==
    /\ pc \in {"idle", "done"}
    /\ call' = ResolverCall("_get_profile_info", <<>>)
    /\ UNCHANGED project_settings
    /\ Returned(ProfileInfoCall(project_settings))

\* A JSON object of the entries whose value is not Omitted.
Omitted == [t |-> "omitted", s |-> <<>>]
JsonObject(entries) ==
    DictV([k \in {e[1] : e \in {x \in entries : x[2] # Omitted}} |->
              (CHOOSE e \in entries : e[1] = k)[2]])

IdValues == {Omitted, EmptyStr, ListV(<<>>), StrV(<<"A", "1">>), ListV(<<StrV(<<"P", "L", "A">>)>>)}

ProfileInit ==
    \E printer \in IdValues : \E process \in IdValues : \E filaments \in IdValues :
        Loaded(JsonObject({<<K_printer_settings_id, printer>>,
                           <<K_print_settings_id, process>>,
                           <<K_filament_settings_id, filaments>>}))

ProfileNext == GetProfileInfo

ProfileSpec == ProfileInit /\ [][ProfileNext]_vars

----------------------------------------------------------------------------
(* main(): the command line driver.  It checks the file argument, runs     *)
(* analyze() on a new analyzer, prints the result, and maps the exceptions *)
(* it catches to an exit status.  call.args holds the --json flag.         *)

NoArgument == NotAnArchive("noarg")

\* The exception the table output raises on the rows, "none" if it prints:
\* fil.isdigit() needs a string, "[bold white]" + name needs a string.
RECURSIVE TableRaises(_)
TableRaises(rows) ==
    IF rows = <<>> THEN "none"
    ELSE IF Head(rows).filament.t # "str" THEN "AttributeError"
    ELSE IF Head(rows).name.t # "str" THEN "TypeError"
    ELSE TableRaises(Tail(rows))

\* json.dumps(result) takes every value the two parsers produce.
OutputRaises(json, res) == IF json THEN "none" ELSE TableRaises(res.rows)

\* The except clauses of main()
Caught == {"BadZipFile", "JSONDecodeError", "ParseError", "ValueError", "OSError"}

\* sys.exit in every except clause that exits 0
ExitStatus_Success(e) == 0

\* The status main() exits with in the except clause of exception e
ExitStatus(e) ==
    CASE e = "BadZipFile" -> 1
      [] e = "JSONDecodeError" -> 1
      [] e = "ParseError" -> 1
      [] e = "ValueError" -> 1
      [] e = "OSError" -> 1

ExitedWith(status) == [t |-> "int", n |-> status]

\* main() ends: "returned", "exited" (SystemExit) or "raised" (an exception
\* leaves it and the interpreter ends with status 1).
MainEnds(status, how) ==
    /\ main_pc' = how
    /\ exit_status' = ExitedWith(status)

\* parse_args, the checks of the file argument and ThreeMFAnalyzer(filepath)
MainCheckFile ==
    /\ main_pc = "args"
    /\ IF file.kind = "noarg" THEN MainEnds(2, "exited")
       ELSE IF file.kind = "missing" THEN MainEnds(1, "exited")
       ELSE main_pc' = "try" /\ UNCHANGED exit_status
    /\ UNCHANGED <<wiki, file, pc, temp_dir, fs_dirs, extracted, member_idx, project_settings,
                   objects, plates, result, exc, calls, call>>

\* result = analyzer.analyze()
MainAnalyze ==
    /\ main_pc = "try"
    /\ pc = "idle"
    /\ Analyze

\* analyze() returned: print the result as JSON or as tables
MainOutput ==
    /\ main_pc = "try"
    /\ pc = "done"
    /\ exc = "none"
    /\ LET e == OutputRaises(call.args[1], result)
       IN  /\ exc' = e
           /\ IF e = "none" THEN MainEnds(0, "returned")
              ELSE IF e \in Caught THEN MainEnds(ExitStatus(e), "exited")
              ELSE MainEnds(1, "raised")
    /\ pc' = "printed"
    /\ UNCHANGED <<wiki, file, temp_dir, fs_dirs, extracted, member_idx, project_settings,
                   objects, plates, result, calls, call>>

\* analyze() raised: the matching except clause exits, any other exception
\* leaves main()
MainExcept ==
    /\ main_pc = "try"
    /\ pc = "done"
    /\ exc # "none"
    /\ IF exc \in Caught THEN MainEnds(ExitStatus(exc), "exited")
       ELSE MainEnds(1, "raised")
    /\ UNCHANGED <<wiki, file, pc, temp_dir, fs_dirs, extracted, member_idx, project_settings,
                   objects, plates, result, exc, calls, call>>

MainInit ==
    /\ \/ ArchiveFile(file)
       \/ file = NoArgument
       \/ \E metas \in {<<>>, <<Meta(K_name, S_A), Meta(K_extruder, None)>>} :
             file = OneObjectFile(metas, <<>>)
    /\ Constructed
    /\ \E json \in BOOLEAN : call = [name |-> "main", args |-> <<json>>, again |-> FALSE]
    /\ main_pc = "args"
    /\ exit_status = None
    /\ WikiUnused

MainNext ==
    \/ MainCheckFile
    \/ MainAnalyze
    \/ OpenFails
    \/ OpenArchive
    \/ ValidateMember
    \/ RejectMember
    \/ ExtractAll
    \/ ExtractAllFails
    \/ _parse_project_settings
    \/ ProjectSettingsInvalid
    \/ _parse_model_settings
    \/ ModelSettingsInvalid
    \/ BuildResult
    \/ BuildResultRaises
    \/ Cleanup
    \/ MainOutput
    \/ MainExcept

MainSpec == MainInit /\ [][MainNext]_vars

----------------------------------------------------------------------------
(* settings_wiki._load_cache under concurrent callers.  Every thread runs  *)
(* one call of get_wiki_url, get_setting_info, get_all_settings or         *)
(* get_meta, each of which begins with data = _load_cache().  A step is    *)
(* one read or write of the module's globals or of the data directory;     *)
(* reading and assigning the global _cache is atomic.  A dictionary is     *)
(* [t, oid, kind]: oid is its identity, the number of the allocation.      *)

MaxThreads == 2     \* concurrent callers of _load_cache

Threads == 1..MaxThreads

\* {"_meta": {}, "settings": {}}, a new dictionary
EmptyCache(oid) == [t |-> "dict", oid |-> oid, kind |-> "empty"]
\* what json.load returns for the file generate_json writes, a new dictionary
LoadedCache(oid) == [t |-> "dict", oid |-> oid, kind |-> "loaded"]

\* The states of settings_wiki.json
JsonStates == {"absent", "object", "undecodable", "unreadable"}

At(t, where) == threads[t].pc = where
Goto(t, where) == threads' = [threads EXCEPT ![t].pc = where]

\* with _cache_lock: left by return or by an exception
Release == _cache_lock' = Unlocked

\* data = _load_cache() of one of the four public functions
LoadCacheCalled(t) ==
    /\ At(t, "idle")
    /\ Goto(t, "fast_check")
    /\ UNCHANGED <<_cache, _cache_lock, disk, heap>>
    /\ UNCHANGED analyzer

\* if _cache is not None, without the lock
FastCheck(t) ==
    /\ At(t, "fast_check")
    /\ Goto(t, IF _cache # None THEN "fast_return" ELSE "acquire")
    /\ UNCHANGED <<_cache, _cache_lock, disk, heap>>
    /\ UNCHANGED analyzer

\* return _cache of the fast path
FastReturn(t) ==
    /\ At(t, "fast_return")
    /\ threads' = [threads EXCEPT ![t] = [pc |-> "returned", ret |-> _cache]]
    /\ UNCHANGED <<_cache, _cache_lock, disk, heap>>
    /\ UNCHANGED analyzer

\* with _cache_lock: blocks while another thread holds the lock
AcquireLock(t) ==
    /\ At(t, "acquire")
    /\ _cache_lock = Unlocked
    /\ _cache_lock' = t
    /\ Goto(t, "double_check")
    /\ UNCHANGED <<_cache, disk, heap>>
    /\ UNCHANGED analyzer

\* DoubleCheck that goes on to build the cache whatever _cache holds
DoubleCheck_Skipped(t) ==
    /\ At(t, "double_check")
    /\ Goto(t, "json_exists")
    /\ UNCHANGED <<_cache, _cache_lock, disk, heap>>
    /\ UNCHANGED analyzer

\* if _cache is not None, with the lock held
DoubleCheck(t) ==
    /\ At(t, "double_check")
    /\ Goto(t, IF _cache # None THEN "locked_return" ELSE "json_exists")
    /\ UNCHANGED <<_cache, _cache_lock, disk, heap>>
    /\ UNCHANGED analyzer

\* if not _JSON_PATH.exists(), and the test of the two .cpp files
CheckJsonPath(t) ==
    /\ At(t, "json_exists")
    /\ Goto(t, IF disk.json # "absent" THEN "load"
               ELSE IF disk.cpp THEN "generate" ELSE "no_data")
    /\ UNCHANGED <<_cache, _cache_lock, disk, heap>>
    /\ UNCHANGED analyzer

\* generate_json() writes settings_wiki.json
GenerateJson(t) ==
    /\ At(t, "generate")
    /\ disk' = [disk EXCEPT !.json = "object"]
    /\ Goto(t, "load")
    /\ UNCHANGED <<_cache, _cache_lock, heap>>
    /\ UNCHANGED analyzer

\* generate_json() raises (the file cannot be written): the exception leaves
\* _load_cache through the with statement
GenerateJsonRaises(t) ==
    /\ At(t, "generate")
    /\ Goto(t, "raised")
    /\ Release
    /\ UNCHANGED <<_cache, disk, heap>>
    /\ UNCHANGED analyzer

\* _cache = {"_meta": {}, "settings": {}} when there are no data files
NoDataFiles(t) ==
    /\ At(t, "no_data")
    /\ _cache' = EmptyCache(heap + 1)
    /\ heap' = heap + 1
    /\ Goto(t, "locked_return")
    /\ UNCHANGED <<_cache_lock, disk>>
    /\ UNCHANGED analyzer

\* _cache = json.load(f)
LoadJson(t) ==
    /\ At(t, "load")
    /\ disk.json = "object"
    /\ _cache' = LoadedCache(heap + 1)
    /\ heap' = heap + 1
    /\ Goto(t, "locked_return")
    /\ UNCHANGED <<_cache_lock, disk>>
    /\ UNCHANGED analyzer

\* except (json.JSONDecodeError, OSError): _cache = {"_meta": {}, "settings": {}}
LoadJsonFails(t) ==
    /\ At(t, "load")
    /\ disk.json \in {"undecodable", "unreadable"}
    /\ _cache' = EmptyCache(heap + 1)
    /\ heap' = heap + 1
    /\ Goto(t, "locked_return")
    /\ UNCHANGED <<_cache_lock, disk>>
    /\ UNCHANGED analyzer

\* return _cache inside the with statement: the lock is released
LockedReturn(t) ==
    /\ At(t, "locked_return")
    /\ threads' = [threads EXCEPT ![t] = [pc |-> "returned", ret |-> _cache]]
    /\ Release
    /\ UNCHANGED <<_cache, disk, heap>>
    /\ UNCHANGED analyzer

CacheInit ==
    /\ file = NotAnArchive("missing")
    /\ Constructed
    /\ call = NoCall
    /\ main_pc = "none"
    /\ exit_status = None
    /\ Imported
    /\ threads = [t \in Threads |-> IdleThread]
    /\ \E json \in JsonStates : \E cpp \in BOOLEAN : disk = [json |-> json, cpp |-> cpp]

CacheNext ==
    \E t \in Threads :
        \/ LoadCacheCalled(t)
        \/ FastCheck(t)
        \/ FastReturn(t)
        \/ AcquireLock(t)
        \/ DoubleCheck(t)
        \/ CheckJsonPath(t)
        \/ GenerateJson(t)
        \/ GenerateJsonRaises(t)
        \/ NoDataFiles(t)
        \/ LoadJson(t)
        \/ LoadJsonFails(t)
        \/ LockedReturn(t)

CacheSpec == CacheInit /\ [][CacheNext]_vars

----------------------------------------------------------------------------
(* Properties                                                              *)

\* A member name the archive safety contract refuses.
UnsafeMember(m) == m.abs \/ ~IsRelativeTo(TargetPath(ScratchDir, m), ScratchDir)
HasUnsafeMember(f) == \E i \in 1..Len(f.members) : UnsafeMember(f.members[i])

\* C1: whenever a call of analyze() has returned or raised (on any exit
\* path: normal return, BadZipFile, ValueError, OSError, JSONDecodeError,
\* ParseError), the scratch directory _extract created no longer exists,
\* nothing extracted is left, and self.temp_dir is None.
C1_ScratchDirGone ==
    pc = "done" =>
        /\ exc \in {"none", "BadZipFile", "ValueError", "OSError", "JSONDecodeError",
                    "ParseError", "AttributeError"}
        /\ temp_dir = NoTempDir
        /\ ScratchDir \notin fs_dirs
        /\ extracted = {}

\* The security rejection has been raised and the call is over.
C1_Witness ==
    /\ pc = "done"
    /\ exc = "ValueError"
    /\ HasUnsafeMember(file)
    /\ temp_dir = NoTempDir
    /\ fs_dirs = {}

\* C2: an archive with an unsafe member name (absolute, or resolving outside
\* the scratch directory), at any position of the listing, never has a member
\* extracted, never reaches the parsers, and analyze() ends with ValueError.
C2_UnsafeNeverExtracted ==
    (file.kind = "zip" /\ HasUnsafeMember(file)) =>
        /\ extracted = {}
        /\ pc \in {"idle", "open", "validate", "done"}
        /\ result = None
        /\ pc = "done" => exc = "ValueError"

\* A safe member first, the unsafe (traversal) member behind it: rejected
\* with nothing extracted.
C2_Witness ==
    /\ pc = "done"
    /\ exc = "ValueError"
    /\ Len(file.members) = 2
    /\ ~UnsafeMember(file.members[1])
    /\ ~file.members[2].abs
    /\ UnsafeMember(file.members[2])
    /\ extracted = {}

----------------------------------------------------------------------------
(* The rows of a result against what the analyzer holds and what the       *)
(* document says.  A result is kept until the next call of analyze().      *)

Rows == result.rows

\* The positions of the parent rows, in order.
IsParentAt(i) == Rows[i].is_parent
ParentPositions == SelectSeq([i \in 1..Len(Rows) |-> i], IsParentAt)

\* The rows between the k-th parent row and the next one.
ChildCount(k) ==
    (IF k < Len(ParentPositions) THEN ParentPositions[k + 1] ELSE Len(Rows) + 1)
    - ParentPositions[k] - 1
ParentOf(k) == Rows[ParentPositions[k]]
ChildOf(k, j) == Rows[ParentPositions[k] + j]

\* The object references of the stored plates, plate after plate.
RECURSIVE PlateRefs(_)
PlateRefs(pls) ==
    IF pls = <<>> THEN <<>>
    ELSE [i \in 1..Len(Head(pls).objects) |->
             [plate |-> Head(pls).id, obj_id |-> Head(pls).objects[i]]]
         \o PlateRefs(Tail(pls))
Refs == PlateRefs(plates)

StoredParts(id) == IF id \in DOMAIN objects THEN objects[id].parts ELSE <<>>
StoredField(id, field) == IF id \in DOMAIN objects THEN objects[id][field] ELSE None
StoredName(id) == IF id \in DOMAIN objects THEN objects[id].name ELSE ObjectLabel(id)

\* The hierarchy document of the file (empty when there is none).
DocObjects == IF file.kind = "zip" /\ file.model.st = "ok" THEN file.model.val.objects ELSE <<>>
DocPlates == IF file.kind = "zip" /\ file.model.st = "ok" THEN file.model.val.plates ELSE <<>>
HasPlaterId(node) ==
    \E i \in 1..Len(node.metadata) :
        /\ node.metadata[i].key = K_plater_id
        /\ node.metadata[i].value.t = "str"
        /\ node.metadata[i].value.s # <<>>
        /\ \A j \in (i + 1)..Len(node.metadata) : node.metadata[j].key # K_plater_id
IdentifiedNodes == SelectSeq(DocPlates, HasPlaterId)
\* The plate node the i-th stored plate was parsed from (a repeated
\* analyze() parses the document again and appends its plates again).
NodeOfPlate(i) == IdentifiedNodes[((i - 1) % Len(IdentifiedNodes)) + 1]
PlaterIdOf(node) ==
    node.metadata[CHOOSE i \in 1..Len(node.metadata) :
                      /\ node.metadata[i].key = K_plater_id
                      /\ \A j \in (i + 1)..Len(node.metadata) :
                             node.metadata[j].key # K_plater_id].value
\* The last object node of the document with this id.
NodeOfObject(id) ==
    DocObjects[CHOOSE i \in 1..Len(DocObjects) :
                   /\ DocObjects[i].id = id
                   /\ \A j \in (i + 1)..Len(DocObjects) : DocObjects[j].id # id]

\* The tracked fields: <<field of obj_data and of the profile, flag of the row>>.
TrackedFlags ==
    {<<"layer_height", "layer_custom">>, <<"wall_loops", "walls_custom">>,
     <<"sparse_infill_density", "infill_custom">>, <<"enable_support", "support_custom">>,
     <<"brim_type", "brim_custom">>, <<"outer_wall_speed", "speed_custom">>}

\* C3: in every object row, each of the six custom flags is true exactly when
\* the object's raw override is not None and its str() differs from the str()
\* of the profile's value for that field.
C3_ObjectCustomByString ==
    result # None =>
        /\ Len(ParentPositions) = Len(Refs)
        /\ \A k \in 1..Len(ParentPositions) : \A f \in TrackedFlags :
              LET raw == StoredField(Refs[k].obj_id, f[1])
                  global == result.profile[f[1]]
              IN  ParentOf(k)[f[2]] = (raw # None /\ PyStr(raw) # PyStr(global))

\* The override "0.2" against the profile's number 0.2: not custom.
C3_Witness ==
    /\ result # None
    /\ \E k \in 1..Len(ParentPositions) :
          /\ StoredField(Refs[k].obj_id, "layer_height") = S_0_2
          /\ result.profile.layer_height = NumV(<<"0", ".", "2">>)
          /\ ~ParentOf(k).layer_custom

\* C4: in every part row, walls_custom, speed_custom and infill_custom are
\* true exactly when wall_loops, outer_wall_speed, or one of the two infill
\* density keys is a key of the part's own settings, whatever its value.
C4_PartCustomByPresence ==
    result # None =>
        \A k \in 1..Len(ParentPositions) :
            /\ ChildCount(k) <= Len(StoredParts(Refs[k].obj_id))
            /\ \A j \in 1..ChildCount(k) :
                  LET own == StoredParts(Refs[k].obj_id)[j].custom_settings
                  IN  /\ ChildOf(k, j).is_part
                      /\ ChildOf(k, j).walls_custom = DictHas(own, K_wall_loops)
                      /\ ChildOf(k, j).speed_custom = DictHas(own, K_outer_wall_speed)
                      /\ ChildOf(k, j).infill_custom =
                             (DictHas(own, K_sparse_infill_density)
                              \/ DictHas(own, K_skeleton_infill_density))

\* A part whose wall_loops equals the parent's resolved wall count is custom.
C4_Witness ==
    /\ result # None
    /\ \E k \in 1..Len(ParentPositions) : \E j \in 1..ChildCount(k) :
          LET own == StoredParts(Refs[k].obj_id)[j].custom_settings
          IN  /\ DictHas(own, K_wall_loops)
              /\ DictGet(own, K_wall_loops, None) = ParentOf(k).wall_loops
              /\ ChildOf(k, j).wall_loops = ParentOf(k).wall_loops
              /\ ChildOf(k, j).walls_custom

\* The place of entry j of a plate's instance list once sorted by
\* identify_id, entries of equal identify_id in document order.
SortedPlace(entries, j) ==
    1 + Cardinality({k \in 1..Len(entries) :
                        \/ entries[k].identify_id < entries[j].identify_id
                        \/ /\ entries[k].identify_id = entries[j].identify_id
                           /\ k < j})

\* C5: the object list of every stored plate is the instance list of its
\* plate node ordered by ascending identify_id, instances of equal
\* identify_id in document order.
C5_PlateObjectsSorted ==
    \A i \in 1..Len(plates) :
        /\ Len(IdentifiedNodes) > 0
        /\ LET entries == PlateObjects(NodeOfPlate(i).instances)
           IN  /\ Len(plates[i].objects) = Len(entries)
               /\ \A j \in 1..Len(entries) :
                     plates[i].objects[SortedPlace(entries, j)] = entries[j].object_id

\* identify numbers [3, 1, 2] of objects 1, 2, 9: stored as [2, 9, 1].
C5_Witness ==
    /\ Len(plates) >= 1
    /\ Len(IdentifiedNodes) >= 1
    /\ LET entries == PlateObjects(IdentifiedNodes[1].instances)
       IN  /\ [j \in 1..Len(entries) |-> entries[j].identify_id] = <<3, 1, 2>>
           /\ [j \in 1..Len(entries) |-> entries[j].object_id] = <<S_1, S_2, S_9>>
    /\ plates[1].objects = <<S_2, S_9, S_1>>

\* C6: only plate nodes with a plater_id are stored, each with its
\* plater_id, and every parent row carries the plater_id of such a node: a
\* plate node without plater_id adds no plate and no row.
C6_UnidentifiedPlateDropped ==
    /\ Len(IdentifiedNodes) = 0 => plates = <<>>
    /\ Len(IdentifiedNodes) > 0 => Len(plates) % Len(IdentifiedNodes) = 0
    /\ \A i \in 1..Len(plates) :
          /\ Len(IdentifiedNodes) > 0
          /\ plates[i].id = PlaterIdOf(NodeOfPlate(i))
    /\ result # None =>
          /\ Len(IdentifiedNodes) = 0 => Rows = <<>>
          /\ \A k \in 1..Len(ParentPositions) :
                \E n \in 1..Len(IdentifiedNodes) :
                    ParentOf(k).plate = PlaterIdOf(IdentifiedNodes[n])

\* A plate node without plater_id whose instance references object 1, which
\* exists: no plate, no row.
C6_Witness ==
    /\ pc = "done"
    /\ result # None
    /\ \E n \in 1..Len(DocPlates) :
          /\ ~HasPlaterId(DocPlates[n])
          /\ \E j \in 1..Len(DocPlates[n].instances) :
                LastMeta(DocPlates[n].instances[j], K_object_id, None) \in DOMAIN objects
    /\ plates = <<>>
    /\ Rows = <<>>

\* C7: an object reference has no child row when its object has exactly one
\* part and that part's stored name equals the name of the parent row; in
\* every other case (two or more parts, or one part of another name) it has
\* one child row for each part.
C7_SinglePartDedup ==
    result # None =>
        \A k \in 1..Len(ParentPositions) :
            LET parts == StoredParts(Refs[k].obj_id)
            IN  ChildCount(k) = IF Len(parts) = 1 /\ parts[1].name = ParentOf(k).name
                                THEN 0 ELSE Len(parts)

\* Object "A" with the single part "A": one row.
C7_Witness ==
    /\ result # None
    /\ calls = 1
    /\ Len(Refs) = 1
    /\ Len(StoredParts(Refs[1].obj_id)) = 1
    /\ StoredParts(Refs[1].obj_id)[1].name = S_A
    /\ StoredName(Refs[1].obj_id) = S_A
    /\ Len(Rows) = 1

\* C8: the parent rows are the object references of the stored plates, in
\* plate-list order and, within a plate, in the plate's object order (as many
\* parent rows as references); the stored plates are the identified plate
\* nodes in document order.
C8_ParentRowsInPlateOrder ==
    result # None =>
        /\ Len(ParentPositions) = Len(Refs)
        /\ \A k \in 1..Len(Refs) :
              /\ ParentOf(k).plate = Refs[k].plate
              /\ ParentOf(k).name = StoredName(Refs[k].obj_id)
        /\ \A i \in 1..Len(plates) :
              /\ Len(IdentifiedNodes) > 0
              /\ plates[i].id = PlaterIdOf(NodeOfPlate(i))
              /\ i <= Len(IdentifiedNodes) =>
                    Len(plates[i].objects) = Len(PlateObjects(IdentifiedNodes[i].instances))

\* Plate 1 with one instance, plate 2 with two: three parent rows, in that order.
C8_Witness ==
    /\ result # None
    /\ calls = 1
    /\ Len(plates) = 2
    /\ Len(plates[1].objects) = 1
    /\ Len(plates[2].objects) = 2
    /\ Len(ParentPositions) = 3
    /\ ParentOf(1).plate = S_1
    /\ ParentOf(2).plate = S_2
    /\ ParentOf(3).plate = S_2
    /\ ParentOf(2).name # ParentOf(3).name

\* C9: each object reference gives one parent row (is_parent, not is_part),
\* directly followed by no child row or by one child row per part, in the
\* document order of the parts; a child row has is_part, not is_parent, an
\* empty plate label and the part's name behind two spaces.
C9_ParentThenParts ==
    result # None =>
        /\ \A i \in 1..Len(Rows) : Rows[i].is_parent # Rows[i].is_part
        /\ Rows # <<>> => Rows[1].is_parent
        /\ Len(ParentPositions) = Len(Refs)
        /\ \A k \in 1..Len(ParentPositions) :
              LET id == Refs[k].obj_id
                  parts == StoredParts(id)
              IN  /\ ChildCount(k) \in {0, Len(parts)}
                  /\ id \in DOMAIN objects => Len(parts) = Len(NodeOfObject(id).parts)
                  /\ \A j \in 1..ChildCount(k) :
                        /\ ChildOf(k, j).is_part
                        /\ ChildOf(k, j).plate = EmptyStr
                        /\ ChildOf(k, j).name =
                               StrV(<<" ", " ">>
                                    \o PyStr(LastMeta(NodeOfObject(id).parts[j], K_name, None)))

\* An object with the parts "B" and "A", in this order: parent, "  B", "  A".
C9_Witness ==
    /\ result # None
    /\ Len(Rows) = 3
    /\ Rows[1].is_parent
    /\ Rows[2].name = StrV(<<" ", " ", "B">>)
    /\ Rows[3].name = StrV(<<" ", " ", "A">>)
    /\ Rows[2].is_part /\ Rows[3].is_part

\* An archive that extracts: a zip file whose members are all safe and
\* leave a file name.
Extractable(f) ==
    /\ f.kind = "zip"
    /\ ~HasUnsafeMember(f)
    /\ \A i \in 1..Len(f.members) : ArcName(f.members[i]) # <<>>

\* C10: for an archive without hierarchy document whose settings document is
\* absent or an empty mapping, analyze() raises nothing and returns a profile
\* with printer and process "Unknown", filaments ["Unknown"], every other
\* field the empty string, and no row.
C10_EmptyArchiveDefaults ==
    (/\ pc = "done"
     /\ Extractable(file)
     /\ file.model.st = "absent"
     /\ file.settings \in {Absent, Document(NoSettings)}) =>
        /\ exc = "none"
        /\ result # None
        /\ result.profile.printer = Unknown
        /\ result.profile.process = Unknown
        /\ result.profile.filaments = ListV(<<Unknown>>)
        /\ \A field \in DOMAIN result.profile \ {"printer", "process", "filaments"} :
              result.profile[field] = EmptyStr
        /\ Cardinality(DOMAIN result.profile) = 43
        /\ Rows = <<>>

\* The archive holds an empty settings mapping and another, safe member.
C10_Witness ==
    /\ pc = "done"
    /\ Extractable(file)
    /\ file.model.st = "absent"
    /\ file.settings = Document(NoSettings)
    /\ Len(file.members) = 2
    /\ result # None
    /\ result.profile.printer = Unknown
    /\ Rows = <<>>

----------------------------------------------------------------------------
(* The resolver's methods                                                  *)

CallKey == call.args[1]
CallDefault == call.args[2]
CallIndex == call.args[3]
Stored == project_settings.s[CallKey]

\* C12: _get_value(key, default, index) returns default when the key is
\* missing, the stored value unchanged when it is not a list, and for a list:
\* the whole list when index is -1, default when the list is empty or index
\* is outside 0..len-1, otherwise the element at index.
C12_GetValueContract ==
    (call.name = "_get_value" /\ exc = "none") =>
        IF CallKey \notin DOMAIN project_settings.s THEN result = CallDefault
        ELSE IF Stored.t # "list" THEN result = Stored
        ELSE IF CallIndex = -1 THEN result = Stored
        ELSE IF Stored.s = <<>> \/ CallIndex \notin 0..(Len(Stored.s) - 1)
             THEN result = CallDefault
        ELSE result = Stored.s[CallIndex + 1]

\* A list is stored and an index inside it was asked for.
C12_Witness ==
    /\ call.name = "_get_value"
    /\ CallKey \in DOMAIN project_settings.s
    /\ Stored.t = "list"
    /\ Len(Stored.s) = 2
    /\ CallIndex = 1
    /\ result = Stored.s[2]

DiffSetting == SettingsGet(project_settings, K_different_settings_to_system, ListV(<<>>))

\* The keys the tokens name, without the empty ones and the ones the settings
\* do not hold, each at its first occurrence.
RECURSIVE NamedKeys(_, _)
NamedKeys(toks, seen) ==
    IF toks = <<>> THEN <<>>
    ELSE LET k == Head(toks).key
         IN  IF k = <<>> \/ k \in seen \/ k \notin DOMAIN project_settings.s
             THEN NamedKeys(Tail(toks), seen)
             ELSE <<k>> \o NamedKeys(Tail(toks), seen \cup {k})

StoredUnwrapped(k) ==
    LET v == project_settings.s[k]
    IN  IF v.t = "list" /\ Len(v.s) = 1 THEN v.s[1] ELSE v

ExpectedCustom(toks) ==
    [i \in 1..Len(NamedKeys(toks, {})) |->
        <<NamedKeys(toks, {})[i], StoredUnwrapped(NamedKeys(toks, {})[i])>>]

\* C11: the custom-global mapping holds exactly the keys named in the first
\* element of different_settings_to_system (split on ';', trimmed, empty
\* tokens dropped) that the settings hold, in the order of their first
\* occurrence, each with its stored value, a list of one element unwrapped;
\* a missing, empty or [""] different_settings_to_system gives {}.
C11_CustomGlobalMapping ==
    call.name = "_get_custom_global_settings" =>
        /\ (K_different_settings_to_system \notin DOMAIN project_settings.s
            \/ DiffSetting \in {ListV(<<>>), ListV(<<EmptyStr>>)})
               => (exc = "none" /\ result.s = EmptyDict)
        /\ \A toks \in TokenLists :
              DiffSetting = ListV(<<StrV(JoinTokens(toks))>>)
                  => (exc = "none" /\ result.s = ExpectedCustom(toks))

\* " wall_loops ;fuzzy_skin;wall_loops" style: a padded name, a second name
\* and the first one again give the two keys once, in the order of first
\* occurrence, the one-element list unwrapped.
C11_Witness ==
    /\ call.name = "_get_custom_global_settings"
    /\ DiffSetting = ListV(<<StrV(JoinTokens(<<Token(K_wall_loops, 1), Token(K_fuzzy_skin, 0),
                                               Token(K_wall_loops, 0)>>))>>)
    /\ project_settings.s[K_wall_loops] = ListV(<<S_2, S_3>>)
    /\ result.s = <<<<K_wall_loops, ListV(<<S_2, S_3>>)>>, <<K_fuzzy_skin, S_1>>>>

Blank(v) == v \in {EmptyStr, ListV(<<>>), None}
MissingOrBlank(key) ==
    key \notin DOMAIN project_settings.s \/ Blank(project_settings.s[key])

\* C18: the profile's printer, process and filaments are never blank: a
\* missing, empty-string or empty-list printer_settings_id,
\* print_settings_id or filament_settings_id shows as "Unknown"
\* (["Unknown"] for the filaments).
C18_IdentityNeverBlank ==
    (call.name = "_get_profile_info" /\ exc = "none") =>
        /\ ~Blank(result.printer) /\ ~Blank(result.process) /\ ~Blank(result.filaments)
        /\ MissingOrBlank(K_printer_settings_id) => result.printer = Unknown
        /\ MissingOrBlank(K_print_settings_id) => result.process = Unknown
        /\ MissingOrBlank(K_filament_settings_id) => result.filaments = ListV(<<Unknown>>)

\* C17: the settings resolver and the row builder never raise: whatever
\* the JSON types of a settings document that parsed and whatever the parsed
\* hierarchy, _get_profile_info, _get_custom_global_settings and
\* _build_result complete without an exception, so that the only exceptions
\* of the try block of analyze() are those of the two parsers.
C17_ResolverAndBuilderNeverRaise ==
    /\ (pc = "finally" /\ call = NoCall) => exc \in {"none", "JSONDecodeError", "ParseError"}
    /\ call.name \in {"_get_profile_info", "_get_custom_global_settings"} => exc = "none"

----------------------------------------------------------------------------
(* Failures                                                                *)

\* C14: a structurally corrupt input is a hard failure of analyze() and
\* never yields a result: BadZipFile for a file that is no zip archive,
\* OSError for a file that does not exist, JSONDecodeError for a settings
\* document that is not valid JSON (no empty profile is substituted, the
\* hierarchy document is never parsed, no rows are built), ParseError for an
\* unparsable hierarchy document.
C14_CorruptInputIsHardFailure ==
    (pc = "done" /\ call = NoCall) =>
        /\ file.kind = "notzip" => (exc = "BadZipFile" /\ result = None)
        /\ file.kind = "missing" => (exc = "OSError" /\ result = None)
        /\ (Extractable(file) /\ file.settings.st = "invalid") =>
              /\ exc = "JSONDecodeError"
              /\ result = None
              /\ objects = <<>>
              /\ plates = <<>>
        /\ (Extractable(file) /\ file.settings.st # "invalid" /\ file.model.st = "invalid") =>
              (exc = "ParseError" /\ result = None)

\* The settings document is invalid and the hierarchy document is a valid
\* one: analyze() ended with JSONDecodeError.
C14_Witness ==
    /\ pc = "done"
    /\ Extractable(file)
    /\ file.settings.st = "invalid"
    /\ file.model.st = "ok"
    /\ exc = "JSONDecodeError"
    /\ result = None
    /\ objects = <<>>

MainEnded == main_pc \in {"returned", "exited", "raised"}
ExitedNonZero == main_pc = "exited" /\ exit_status.n # 0

\* C15: main() returns (exit status 0) when the analysis and the output
\* succeed, and exits with a non-zero status for: no file argument, a file
\* that does not exist, a file that is no zip archive, a malformed settings
\* document, a malformed hierarchy document, an unsafe archive member path.
C15_ExitStatus ==
    MainEnded =>
        /\ exc = "none" /\ pc = "printed" => (main_pc = "returned" /\ exit_status.n = 0)
        /\ file.kind \in {"noarg", "missing", "notzip"} => ExitedNonZero
        /\ (Extractable(file) /\ file.settings.st = "invalid") => ExitedNonZero
        /\ (Extractable(file) /\ file.model.st = "invalid") => ExitedNonZero
        /\ (file.kind = "zip" /\ HasUnsafeMember(file)) => ExitedNonZero

\* main() ended on an archive with an unsafe member: ValueError, status 1.
C15_Witness ==
    /\ main_pc = "exited"
    /\ file.kind = "zip"
    /\ HasUnsafeMember(file)
    /\ exc = "ValueError"
    /\ exit_status = ExitedWith(1)

\* C16: main() maps each fatal category (invalid archive, malformed settings
\* JSON, malformed hierarchy XML, unsafe archive path, file-system error) to
\* a distinct non-zero exit status: the status a category ends main() with
\* is the status of no other category; an exception outside the categories
\* leaves main().
C16_DistinctExitCodes ==
    MainEnded =>
        /\ (main_pc = "exited" /\ exc \in Caught) =>
              /\ exit_status.n # 0
              /\ \A other \in Caught \ {exc} : ExitStatus(other) # exit_status.n
        /\ exc \notin Caught \cup {"none"} => main_pc = "raised"

----------------------------------------------------------------------------
(* Objects without node, objects without name                              *)

SynthesizedName(id) == StrV(<<"O", "b", "j", "e", "c", "t", " ">> \o id.s)
WithoutPercent(v) == StrV(SelectSeq(v.s, NotPercent))
Dangling(k) == Refs[k].obj_id \notin DOMAIN objects

\* C19: a plate instance whose object_id has no object node raises nothing
\* and yields exactly one parent row: name "Object {id}", filament "1", the
\* six tracked values those of the profile (as displayed: infill without
\* '%', support On/Off, brim by its label), all six custom flags false, an
\* empty custom-settings mapping, and no child rows.
C19_DanglingReferenceRow ==
    result # None =>
        /\ exc = "none"
        /\ Len(ParentPositions) = Len(Refs)
        /\ \A k \in 1..Len(Refs) : Dangling(k) =>
              LET row == ParentOf(k)
                  profile == result.profile
              IN  /\ row.name = SynthesizedName(Refs[k].obj_id)
                  /\ row.filament = StrV(<<"1">>)
                  /\ row.layer_height = profile.layer_height
                  /\ row.wall_loops = profile.wall_loops
                  /\ row.infill = WithoutPercent(profile.sparse_infill_density)
                  /\ row.support = (IF profile.enable_support = StrV(<<"1">>) THEN On ELSE Off)
                  /\ row.brim = _format_brim(profile.brim_type)
                  /\ row.outer_wall_speed = profile.outer_wall_speed
                  /\ \A f \in TrackedFlags : ~row[f[2]]
                  /\ row.custom_settings = EmptyDict
                  /\ ChildCount(k) = 0

\* Object 9 has no node: its row "Object 9" is followed by the next parent row.
C19_Witness ==
    /\ result # None
    /\ \E k \in 1..(Len(Refs) - 1) :
          /\ Refs[k].obj_id = S_9
          /\ Dangling(k)
          /\ ParentOf(k).name = StrV(<<"O", "b", "j", "e", "c", "t", " ", "9">>)
          /\ ParentOf(k).wall_loops = S_2
          /\ ParentOf(k).infill = StrV(<<"1", "5">>)
          /\ ChildCount(k) = 0

HasNameMetadata(node) == \E i \in 1..Len(node.metadata) : node.metadata[i].key = K_name

\* C20: an object node that exists but carries no name metadata is shown
\* under the synthesized label: its parent row's name is "Object " followed
\* by the object's id, never null.
C20_NamelessObjectLabel ==
    result # None =>
        \A k \in 1..Len(Refs) :
            (~Dangling(k) /\ ~HasNameMetadata(NodeOfObject(Refs[k].obj_id))) =>
                /\ ParentOf(k).name # None
                /\ ParentOf(k).name = SynthesizedName(Refs[k].obj_id)

----------------------------------------------------------------------------
(* Resolution of the tracked fields                                        *)

\* An override that is present and non-empty
NonEmpty(v) == v # None /\ v # EmptyStr

\* The effective value of a tracked field of the k-th object reference: the
\* object's own value, or the profile's.
Effective(k, field) ==
    IF NonEmpty(StoredField(Refs[k].obj_id, field))
    THEN StoredField(Refs[k].obj_id, field)
    ELSE result.profile[field]

\* The display labels of the brim types
BrimLabels ==
    {<<StrV(<<"b", "r", "i", "m", "_", "e", "a", "r", "s">>),
       StrV(<<"M", "o", "u", "s", "e", " ", "e", "a", "r">>)>>,
     <<S_no_brim, StrV(<<"N", "o">>)>>,
     <<StrV(<<"o", "u", "t", "e", "r", "_", "o", "n", "l", "y">>),
       StrV(<<"O", "u", "t", "e", "r">>)>>,
     <<StrV(<<"i", "n", "n", "e", "r", "_", "o", "n", "l", "y">>),
       StrV(<<"I", "n", "n", "e", "r">>)>>,
     <<StrV(<<"o", "u", "t", "e", "r", "_", "a", "n", "d", "_", "i", "n", "n", "e", "r">>),
       StrV(<<"B", "o", "t", "h">>)>>}
BrimLabel(v) ==
    IF v = None THEN EmptyStr
    ELSE IF \E p \in BrimLabels : p[1] = v
    THEN (CHOOSE p \in BrimLabels : p[1] = v)[2]
    ELSE v

\* str(value) without its '%' signs, '' for None
Displayed(v) == IF v = None THEN EmptyStr ELSE StrV(SelectSeq(PyStr(v), NotPercent))

\* C21: for each tracked field of an object row, the effective value is the
\* object's own value when it is present and non-empty and the profile's
\* value when it is null or the empty string; the row shows it as it is for
\* layer height, wall loops and outer wall speed, without '%' for infill,
\* as the brim's display label, and as 'On' exactly when it is "1" for support.
C21_ObjectOrProfile ==
    result # None =>
        \A k \in 1..Len(Refs) :
            LET row == ParentOf(k)
            IN  /\ row.layer_height = Effective(k, "layer_height")
                /\ row.wall_loops = Effective(k, "wall_loops")
                /\ row.outer_wall_speed = Effective(k, "outer_wall_speed")
                /\ row.infill = Displayed(Effective(k, "sparse_infill_density"))
                /\ row.brim = BrimLabel(Effective(k, "brim_type"))
                /\ row.support = IF Effective(k, "enable_support") = S_1 THEN On ELSE Off

\* An object whose enable_support is the empty string under a profile that
\* enables support: the row says On.
C21_Witness ==
    /\ result # None
    /\ \E k \in 1..Len(Refs) :
          /\ StoredField(Refs[k].obj_id, "enable_support") = EmptyStr
          /\ result.profile.enable_support = S_1
          /\ ParentOf(k).support = On

\* The part of the j-th child row of the k-th object reference
PartOf(k, j) == StoredParts(Refs[k].obj_id)[j]
OwnSetting(k, j, key) == DictGet(PartOf(k, j).custom_settings, key, None)

\* C22: the override "0" is a falsy trigger like the empty string: an object
\* whose tracked field is "0" shows the profile's value for that field, and
\* a part whose wall_loops or outer_wall_speed is "0" shows the value of its
\* parent row.
C22_ZeroFallsThrough ==
    result # None =>
        \A k \in 1..Len(Refs) :
            LET row == ParentOf(k)
                own(field) == StoredField(Refs[k].obj_id, field)
                profile == result.profile
            IN  /\ own("layer_height") = S_0 => row.layer_height = profile.layer_height
                /\ own("wall_loops") = S_0 => row.wall_loops = profile.wall_loops
                /\ own("outer_wall_speed") = S_0 =>
                       row.outer_wall_speed = profile.outer_wall_speed
                /\ own("sparse_infill_density") = S_0 =>
                       row.infill = Displayed(profile.sparse_infill_density)
                /\ own("brim_type") = S_0 => row.brim = BrimLabel(profile.brim_type)
                /\ own("enable_support") = S_0 =>
                       row.support = IF profile.enable_support = S_1 THEN On ELSE Off
                /\ \A j \in 1..ChildCount(k) :
                      /\ OwnSetting(k, j, K_wall_loops) = S_0 =>
                             ChildOf(k, j).wall_loops = row.wall_loops
                      /\ OwnSetting(k, j, K_outer_wall_speed) = S_0 =>
                             ChildOf(k, j).outer_wall_speed = row.outer_wall_speed

\* A part node without name metadata
NamelessPart(metas) == \A i \in 1..Len(metas) : metas[i].key # K_name

\* C23: the single-part comparison takes the literal "Part" as the name of a
\* part without name metadata: an object named "Part" with exactly one such
\* part has no child row, and an object of any other name, or without a
\* name, with exactly one such part has its child row.
C23_DedupAgainstPartDefault ==
    result # None =>
        \A k \in 1..Len(Refs) :
            ~Dangling(k) =>
                LET node == NodeOfObject(Refs[k].obj_id)
                IN  (Len(node.parts) = 1 /\ NamelessPart(node.parts[1])) =>
                        ChildCount(k) = IF LastMeta(node.metadata, K_name, None) = S_Part
                                        THEN 0 ELSE 1

\* C24: a part never overrides layer height, brim type or support: every
\* part row has an empty layer_height and brim, layer_custom, brim_custom
\* and support_custom false, and the support value of its parent row,
\* whatever keys the part's own settings hold.
C24_PartNeverOverrides ==
    result # None =>
        /\ \A i \in 1..Len(Rows) :
              Rows[i].is_part =>
                  /\ Rows[i].layer_height = EmptyStr
                  /\ Rows[i].brim = EmptyStr
                  /\ ~Rows[i].layer_custom
                  /\ ~Rows[i].brim_custom
                  /\ ~Rows[i].support_custom
        /\ \A k \in 1..Len(ParentPositions) : \A j \in 1..ChildCount(k) :
              ChildOf(k, j).support = ParentOf(k).support

\* A part carrying layer_height, brim_type and enable_support "1" under an
\* object whose support is On: the part row shows On and nothing of its own.
C24_Witness ==
    /\ result # None
    /\ \E k \in 1..Len(ParentPositions) : \E j \in 1..ChildCount(k) :
          /\ OwnSetting(k, j, K_enable_support) = S_1
          /\ OwnSetting(k, j, K_layer_height) = S_0_20
          /\ OwnSetting(k, j, K_brim_type) = S_no_brim
          /\ ParentOf(k).support = On
          /\ ChildOf(k, j).support = On
          /\ ChildOf(k, j).layer_height = EmptyStr
          /\ ChildOf(k, j).brim = EmptyStr

\* The part's own value when present and non-empty, else the fallback
OwnOr(own, fallback) == IF NonEmpty(own) THEN own ELSE fallback

\* C25: a part row's filament, wall loops and outer wall speed are the
\* part's own value when present and non-empty and the parent row's value
\* otherwise; its infill is the part's sparse_infill_density if non-empty,
\* else its skeleton_infill_density if non-empty, else the parent row's
\* infill, whatever the order of the two keys in the document.
C25_PartFallbackChain ==
    result # None =>
        \A k \in 1..Len(ParentPositions) : \A j \in 1..ChildCount(k) :
            LET row == ChildOf(k, j)
                parent == ParentOf(k)
                sparse == OwnSetting(k, j, K_sparse_infill_density)
                skeleton == OwnSetting(k, j, K_skeleton_infill_density)
            IN  /\ row.filament = OwnOr(PartOf(k, j).extruder, parent.filament)
                /\ row.wall_loops = OwnOr(OwnSetting(k, j, K_wall_loops), parent.wall_loops)
                /\ row.outer_wall_speed =
                       OwnOr(OwnSetting(k, j, K_outer_wall_speed), parent.outer_wall_speed)
                /\ row.infill = IF NonEmpty(sparse) THEN Displayed(sparse)
                                ELSE IF NonEmpty(skeleton) THEN Displayed(skeleton)
                                ELSE parent.infill

\* A part node that lists skeleton_infill_density "50%" before
\* sparse_infill_density "30%": the row shows 30.
C25_Witness ==
    /\ result # None
    /\ \E k \in 1..Len(ParentPositions) : \E j \in 1..ChildCount(k) :
          LET metas == NodeOfObject(Refs[k].obj_id).parts[j]
          IN  /\ \E a, b \in 1..Len(metas) :
                    /\ a < b
                    /\ metas[a] = Meta(K_skeleton_infill_density, S_50pct)
                    /\ metas[b] = Meta(K_sparse_infill_density, S_30pct)
              /\ ChildOf(k, j).infill = StrV(<<"3", "0">>)
              /\ ChildOf(k, j).filament = ParentOf(k).filament

\* The reserved keys: name, matrix, extruder, face_count, source_object_id,
\* source_volume_id and the source offsets
ReservedKeys ==
    {K_name, K_matrix, K_extruder, K_face_count, K_source_object_id,
     K_source_volume_id, K_source_offset_x, K_source_offset_y, K_source_offset_z}
Unreserved(own) == \A i \in 1..Len(own) : own[i][1] \notin ReservedKeys

\* C26: no own-settings mapping of a stored object or of one of its parts
\* holds a reserved system key, whatever metadata keys the document
\* carries, and no row's custom_settings holds one either.
C26_NoSystemKeyInOwnSettings ==
    /\ \A id \in DOMAIN objects :
          /\ Unreserved(objects[id].custom_settings)
          /\ \A j \in 1..Len(objects[id].parts) :
                Unreserved(objects[id].parts[j].custom_settings)
    /\ result # None => \A i \in 1..Len(Rows) : Unreserved(Rows[i].custom_settings)

\* A part carries matrix, face_count and the source keys beside fuzzy_skin:
\* only fuzzy_skin is kept, in the stored data and in its row.
C26_Witness ==
    /\ result # None
    /\ Len(DocObjects) = 1
    /\ Len(DocObjects[1].parts) >= 1
    /\ \E a \in 1..Len(DocObjects[1].parts[1]) : DocObjects[1].parts[1][a].key = K_face_count
    /\ \E a \in 1..Len(DocObjects[1].parts[1]) : DocObjects[1].parts[1][a].key = K_matrix
    /\ Len(Rows) >= 2
    /\ Rows[2].is_part
    /\ Rows[2].custom_settings = << <<K_fuzzy_skin, S_1>> >>

\* The instances of a plate node that carry an object_id
HasObjectId(inst) == Truthy(LastMeta(inst, K_object_id, None))
Listed(node) == SelectSeq(node.instances, HasObjectId)

\* The order number of an instance: its last identify_id when that is an
\* integer literal, and 0 when it is anything else, has no value, or the
\* instance has no identify_id metadata.
OrderNumber(inst) ==
    IF \A a \in 1..Len(inst) : inst[a].key # K_identify_id THEN 0
    ELSE LET v == LastMeta(inst, K_identify_id, None)
         IN  IF PyInt(v).ok THEN PyInt(v).n ELSE 0
\* The place of instance j among instances of these order numbers: behind
\* those of a smaller number and those of the same number listed before it.
OrderedPlace(numbers, j) ==
    1 + Cardinality({k \in 1..Len(numbers) :
                        \/ numbers[k] < numbers[j]
                        \/ (numbers[k] = numbers[j] /\ k < j)})

\* C27: parsing a plate instance never raises on its identify_id: a value
\* that is no integer literal, an entry without value and an instance
\* without identify_id all count as order number 0, and every instance with
\* an object_id is listed on its plate, sorted under that number.
C27_IdentifyNeverRaises ==
    /\ (pc = "done" /\ Extractable(file) /\ file.model.st = "ok"
        /\ file.settings = Document(BaseSettings)) => (exc = "none" /\ result # None)
    /\ \A i \in 1..Len(plates) :
          /\ Len(IdentifiedNodes) > 0
          /\ LET insts == Listed(NodeOfPlate(i))
                 numbers == [j \in 1..Len(insts) |-> OrderNumber(insts[j])]
             IN  /\ Len(plates[i].objects) = Len(insts)
                 /\ \A j \in 1..Len(insts) :
                       plates[i].objects[OrderedPlace(numbers, j)] =
                           LastMeta(insts[j], K_object_id, None)

\* Object 1 with identify_id "2" before object 2 with identify_id "x":
\* analyze() returns and the plate lists object 2 first.
C27_Witness ==
    /\ pc = "done"
    /\ exc = "none"
    /\ Len(DocPlates) = 1
    /\ Len(DocPlates[1].instances) = 2
    /\ LastMeta(DocPlates[1].instances[1], K_identify_id, None) = S_2
    /\ LastMeta(DocPlates[1].instances[2], K_identify_id, None) = S_x
    /\ Len(plates) >= 1
    /\ plates[1].objects = <<S_2, S_1>>

\* C28: at object level a field flagged custom is one whose effective value
\* diverges from the profile: in every parent row, a tracked field whose
\* custom flag is true has a resolved value that differs, as a string, from
\* the profile's value; an override that falls through to the profile is
\* not flagged.
C28_CustomMeansDiverging ==
    result # None =>
        \A k \in 1..Len(Refs) : \A f \in TrackedFlags :
            ParentOf(k)[f[2]] =>
                PyStr(Effective(k, f[1])) # PyStr(result.profile[f[1]])

\* What analyze() returns on a newly constructed analyzer of this file
FreshSettings == IF file.settings.st = "ok" THEN file.settings.val ELSE NoSettings
FreshObjects == ParseObjects(<<>>, DocObjects)
FreshPlates == ParsePlates(<<>>, DocPlates)
FreshResult == _build_result(FreshSettings, FreshObjects, FreshPlates).value

\* C30: invocations share no mutable state: the first call of analyze()
\* returns the result of the file, and a second call on the same analyzer
\* with the file unchanged returns an equal result, from the same plate
\* list, with the same rows in the same order.
C30_RepeatedAnalyzeEqual ==
    /\ (calls = 1 /\ result # None) => result = FreshResult
    /\ (calls = 2 /\ result # None) =>
          /\ plates = FreshPlates
          /\ Len(Rows) = Len(FreshResult.rows)
          /\ result = FreshResult

----------------------------------------------------------------------------
(* The wiki cache                                                          *)

\* The steps of _load_cache inside the with statement
LockedSection == {"double_check", "json_exists", "generate", "no_data", "load", "locked_return"}
HoldsLock(t) == _cache_lock = t /\ threads[t].pc \in LockedSection

\* What the callers that have returned got from _load_cache
Returns == {threads[t].ret : t \in {u \in DOMAIN threads : threads[u].pc = "returned"}}

\* C29: under any interleaving of concurrent callers of _load_cache that
\* start with the cache unset, the module cache is assigned at most once and
\* only by a thread that holds the mutex; every caller that returns gets the
\* same dictionary, never None; and once the cache is set it is never
\* replaced, and a caller that finds it set returns it on the fast path,
\* without the lock.
C29_CacheLoadedOnce ==
    /\ [](/\ heap <= 1
          /\ \A r \in Returns : r # None /\ r.t = "dict" /\ r = _cache
          /\ Cardinality(Returns) <= 1)
    /\ [][_cache' # _cache => (_cache = None /\ \E t \in DOMAIN threads : HoldsLock(t))]_vars
    /\ [][\A t \in DOMAIN threads :
             /\ (threads[t].pc = "fast_check" /\ _cache # None) =>
                    threads'[t].pc \in {"fast_check", "fast_return"}
             /\ threads[t].pc = "fast_return" =>
                    /\ threads'[t] \in {threads[t], [pc |-> "returned", ret |-> _cache]}
                    /\ _cache_lock' # t]_vars

\* One caller has returned the cache it built while another, which found the
\* cache unset on the fast path, holds the lock at the second check.
C29_Witness ==
    /\ _cache # None
    /\ heap = 1
    /\ \E a, b \in DOMAIN threads :
          /\ threads[a].pc = "returned"
          /\ threads[a].ret = _cache
          /\ threads[b].pc = "double_check"
          /\ _cache_lock = b

====
